---- MODULE Spec2Model ----
(***************************************************************************)
(* Request-handling pipeline of the Naver dictionary MCP server:           *)
(* normalisation, TTL/LRU cache, global token bucket, retry orchestrator,  *)
(* single-word pipeline (search_word) and batch pipeline                   *)
(* (batch_search_words).                                                   *)
(*                                                                         *)
(* Strings are sequences of one-character strings.  A dict is a record, a  *)
(* JSON text is [json |-> its members].  Time is in whole seconds.  The    *)
(* token count of the bucket is kept multiplied by 60 so that the refill   *)
(* elapsed * (capacity / 60)  stays exact.                                 *)
(***************************************************************************)
EXTENDS Integers, Sequences, FiniteSets, TLC

(***************************************************************************)
(* Bounds of the model and configuration values.                           *)
(***************************************************************************)
MaxWords == 2
MaxTime == 60                 \* the clock stops advancing here
TickStep == 30                \* seconds that pass in one Tick
REQUESTS_PER_MINUTE == 2      \* capacity of the bucket (configured quota)
CACHE_MAX_SIZE == 1           \* config.CACHE_MAX_SIZE
CACHE_TTL == 60               \* config.CACHE_TTL
CACHE_NEGATIVE_TTL == 30      \* config.CACHE_NEGATIVE_TTL
BATCH_CONCURRENCY == 1        \* config.BATCH_CONCURRENCY
UPSTREAM_RETRY_MAX_ATTEMPTS == 2   \* config.UPSTREAM_RETRY_MAX_ATTEMPTS

(***************************************************************************)
(* Program constants.                                                      *)
(***************************************************************************)
MAX_WORD_LEN == 100           \* _normalize_word: len(normalized) > 100
MAX_BATCH_WORDS == 10         \* _batch_search_words_impl: len(words) > 10
SECONDS_PER_MINUTE == 60      \* RateLimiter: requests_per_minute / 60.0

VARIABLES
    now,            \* time.time(), in seconds
    cache,          \* TTLCache.cache: key -> [value, expires_at]
    access_times,   \* TTLCache.access_times, in dict insertion order
    bucket,         \* the global token bucket
    sw,             \* the search_word run
    bt,             \* the batch_search_words run
    co,             \* the latest direct call of a TTLCache method
    lim,            \* a RateLimiter: its buckets and the latest call
    fn              \* the latest direct call of a function of server.py

vars == <<now, cache, access_times, bucket, sw, bt, co, lim, fn>>

(***************************************************************************)
(* Strings.                                                                *)
(***************************************************************************)
None == <<"<None>">>          \* Python's None where a str is expected
Whitespace == {" "}

Rep(c, n) == [i \in 1..n |-> c]

RECURSIVE LStrip(_)
LStrip(s) ==
    IF s # <<>> /\ Head(s) \in Whitespace THEN LStrip(Tail(s)) ELSE s

RECURSIVE RStrip(_)
RStrip(s) ==
    IF s # <<>> /\ s[Len(s)] \in Whitespace
    THEN RStrip(SubSeq(s, 1, Len(s) - 1))
    ELSE s

\* str.strip()
Strip(s) == RStrip(LStrip(s))

\* unicodedata.normalize("NFC", s): the base letter "a" followed by the
\* combining mark "~" composes into the single character "a~".
NFC(s) ==
    LET absorbed(i) == i > 1 /\ s[i] = "~" /\ s[i - 1] = "a"
        kept(i) == Cardinality({j \in 1..i : ~absorbed(j)})
        at(k) == CHOOSE i \in 1..Len(s) : ~absorbed(i) /\ kept(i) = k
    IN  IF \A i \in 1..Len(s) : s[i] # "~" THEN s
        ELSE [k \in 1..kept(Len(s)) |->
                 IF at(k) < Len(s) /\ absorbed(at(k) + 1)
                 THEN "a~" ELSE s[at(k)]]

\* a lone surrogate: a character of a str that str.encode("utf-8") refuses
LoneSurrogate == "<D800>"

\* plain.encode("utf-8") succeeds
Encodable(s) == \A i \in 1..Len(s) : s[i] # LoneSurrogate

\* `x or ""`
OrEmpty(w) == IF w = None THEN <<>> ELSE w

(***************************************************************************)
(* _normalize_word.  The result is the normalised word, or the             *)
(* ValidationError raised: msg names the message, n the length it reports. *)
(***************************************************************************)
NormOk(w) == [ok |-> TRUE, word |-> w, msg |-> "", n |-> 0]
NormErr(m, k) == [ok |-> FALSE, word |-> <<>>, msg |-> m, n |-> k]

\* a variant whose strip removes one character at each end
NormalizeStripsOneCharacter(word) ==
    IF word = None THEN NormErr("empty", 0)
    ELSE IF word = <<>> THEN NormErr("empty", 0)
    ELSE LET l == IF Head(word) \in Whitespace THEN Tail(word) ELSE word
             stripped == IF l # <<>> /\ l[Len(l)] \in Whitespace
                         THEN SubSeq(l, 1, Len(l) - 1) ELSE l
         IN
         IF stripped = <<>> THEN NormErr("blank", 0)
         ELSE LET normalized == NFC(stripped) IN
              IF Len(normalized) > MAX_WORD_LEN
              THEN NormErr("too_long", Len(normalized))
              ELSE NormOk(normalized)

NormalizeNoBlankCheck(word) ==
    IF word = None THEN NormErr("empty", 0)
    ELSE IF word = <<>> THEN NormErr("empty", 0)
    ELSE LET normalized == NFC(Strip(word)) IN
         IF Len(normalized) > MAX_WORD_LEN
         THEN NormErr("too_long", Len(normalized))
         ELSE NormOk(normalized)

_normalize_word(word) ==
    IF word = None THEN NormErr("empty", 0)
    ELSE IF word = <<>> THEN NormErr("empty", 0)
    ELSE LET stripped == Strip(word) IN
         IF stripped = <<>> THEN NormErr("blank", 0)
         ELSE LET normalized == NFC(stripped) IN
              IF Len(normalized) > MAX_WORD_LEN
              THEN NormErr("too_long", Len(normalized))
              ELSE NormOk(normalized)

Min(a, b) == IF a < b THEN a ELSE b

(***************************************************************************)
(* responses.py.  A payload is the dict the builders return.  dumps_json   *)
(* turns it into a text; the text carries the same members.                *)
(***************************************************************************)
dumps_json(payload) == [json |-> payload]

json_loads(text) == text.json

WithDictType(payload, dict_type, include_dict_type) ==
    IF include_dict_type THEN payload @@ [dict_type |-> dict_type] ELSE payload

build_success_item(word, dict_type, results, from_cache, deduped, source_word, include_dict_type) ==
    WithDictType([success |-> TRUE, word |-> word, count |-> Len(results),
                  results |-> results, from_cache |-> from_cache,
                  deduped |-> deduped, source_word |-> source_word],
                 dict_type, include_dict_type)

build_error_item(word, dict_type, error, error_type, details, from_cache, deduped, source_word, include_dict_type) ==
    WithDictType([success |-> FALSE, word |-> word, error |-> error,
                  error_type |-> error_type, details |-> details,
                  from_cache |-> from_cache, deduped |-> deduped,
                  source_word |-> source_word],
                 dict_type, include_dict_type)

build_cached_json_item(word, dict_type, cached_json, deduped, source_word, include_dict_type) ==
    WithDictType([success |-> TRUE, word |-> word, from_cache |-> TRUE,
                  cached_json |-> cached_json, deduped |-> deduped,
                  source_word |-> source_word],
                 dict_type, include_dict_type)

\* r.get("success") is True
IsSuccess(r) == "success" \in DOMAIN r /\ r.success = TRUE

RECURSIVE CountSuccess(_)
CountSuccess(results) ==
    IF results = <<>> THEN 0
    ELSE (IF IsSuccess(Head(results)) THEN 1 ELSE 0)
         + CountSuccess(Tail(results))

BatchPayloadPartialWhenAny(dict_type, results, latency) ==
    LET success_count == CountSuccess(results) IN
    [success |-> success_count = Len(results),
     partial_success |-> success_count > 0,
     count |-> Len(results),
     success_count |-> success_count,
     fail_count |-> Len(results) - success_count,
     dict_type |-> dict_type,
     results |-> results,
     latency |-> latency]

build_batch_payload(dict_type, results, latency) ==
    LET success_count == CountSuccess(results)
        fail_count == Len(results) - success_count
    IN  [success |-> success_count = Len(results),
         partial_success |->
             (success_count > 0 /\ success_count < Len(results)),
         count |-> Len(results),
         success_count |-> success_count,
         fail_count |-> fail_count,
         dict_type |-> dict_type,
         results |-> results,
         latency |-> latency]

\* a variant that returns the stored text as it is
PatchFromCacheFlagKeepsText(payload_json, from_cache) == payload_json

\* patch_from_cache_flag, on the members of the text: the first
\* "from_cache" member is rewritten; a text without one gets the member
\* inserted after "success": true; any other text is returned as it is.
patch_from_cache_flag(payload_json, from_cache) ==
    LET p == payload_json.json IN
    IF "from_cache" \in DOMAIN p
    THEN IF p.from_cache = from_cache
         THEN payload_json
         ELSE [json |-> [p EXCEPT !.from_cache = from_cache]]
    ELSE IF "success" \in DOMAIN p /\ p.success = TRUE
         THEN [json |-> p @@ [from_cache |-> from_cache]]
         ELSE payload_json

(***************************************************************************)
(* cache.py: TTLCache.  c is [cache, access_times, max_size]: the two      *)
(* dicts and the size bound of the instance; access_times is kept in       *)
(* insertion order, the order min() scans.                                 *)
(***************************************************************************)
\* _make_key: the digest of "word:dict_type", one key per pair
_make_key(word, dict_type) == <<word, dict_type>>

AtIndex(at, key) ==
    IF \E i \in 1..Len(at) : at[i][1] = key
    THEN CHOOSE i \in 1..Len(at) : at[i][1] = key
    ELSE 0

\* access_times[key] = t
AtPut(at, key, t) ==
    LET i == AtIndex(at, key) IN
    IF i = 0 THEN Append(at, <<key, t>>)
    ELSE [at EXCEPT ![i] = <<key, t>>]

\* del access_times[key], when present
AtDel(at, key) ==
    LET i == AtIndex(at, key) IN
    IF i = 0 THEN at
    ELSE SubSeq(at, 1, i - 1) \o SubSeq(at, i + 1, Len(at))

\* del cache[key], when present
MapDel(m, key) == [k \in (DOMAIN m) \ {key} |-> m[k]]

\* cache[key] = v
MapPut(m, key, v) == [k \in (DOMAIN m) \cup {key} |-> IF k = key THEN v ELSE m[k]]

\* the UnicodeEncodeError (a ValueError) _make_key raises on a word that
\* cannot be encoded, or "none"
MakeKeyExc(word, dict_type) ==
    IF Encodable(word) THEN "none" ELSE "UnicodeEncodeError"

CacheGetAlwaysMiss(c, word, dict_type, t) ==
    [c |-> c, hit |-> FALSE, value |-> None,
     exc |-> MakeKeyExc(word, dict_type)]

\* a variant that leaves the timestamp of an expired entry behind
CacheGetExpiryKeepsTimestamp(c, word, dict_type, t) ==
    LET key == _make_key(word, dict_type) IN
    IF MakeKeyExc(word, dict_type) # "none"
    THEN [c |-> c, hit |-> FALSE, value |-> None,
          exc |-> MakeKeyExc(word, dict_type)]
    ELSE IF key \in DOMAIN c.cache
    THEN IF t < c.cache[key].expires_at
         THEN [c |-> [c EXCEPT !.access_times = AtPut(@, key, t)],
               hit |-> TRUE, value |-> c.cache[key].value, exc |-> "none"]
         ELSE [c |-> [c EXCEPT !.cache = MapDel(@, key)],
               hit |-> FALSE, value |-> None, exc |-> "none"]
    ELSE [c |-> c, hit |-> FALSE, value |-> None, exc |-> "none"]

\* a variant that still serves an entry at its expires_at
CacheGetServesAtExpiry(c, word, dict_type, t) ==
    LET key == _make_key(word, dict_type) IN
    IF MakeKeyExc(word, dict_type) # "none"
    THEN [c |-> c, hit |-> FALSE, value |-> None,
          exc |-> MakeKeyExc(word, dict_type)]
    ELSE IF key \in DOMAIN c.cache
    THEN IF t <= c.cache[key].expires_at
         THEN [c |-> [c EXCEPT !.access_times = AtPut(@, key, t)],
               hit |-> TRUE, value |-> c.cache[key].value, exc |-> "none"]
         ELSE [c |-> [c EXCEPT !.cache = MapDel(@, key),
                               !.access_times = AtDel(@, key)],
               hit |-> FALSE, value |-> None, exc |-> "none"]
    ELSE [c |-> c, hit |-> FALSE, value |-> None, exc |-> "none"]

\* TTLCache.get; exc names the exception raised instead of a return
CacheGet(c, word, dict_type, t) ==
    LET key == _make_key(word, dict_type) IN
    IF MakeKeyExc(word, dict_type) # "none"
    THEN [c |-> c, hit |-> FALSE, value |-> None,
          exc |-> MakeKeyExc(word, dict_type)]
    ELSE IF key \in DOMAIN c.cache
    THEN IF t < c.cache[key].expires_at
         THEN [c |-> [c EXCEPT !.access_times = AtPut(@, key, t)],
               hit |-> TRUE, value |-> c.cache[key].value, exc |-> "none"]
         ELSE [c |-> [c EXCEPT !.cache = MapDel(@, key),
                               !.access_times = AtDel(@, key)],
               hit |-> FALSE, value |-> None, exc |-> "none"]
    ELSE [c |-> c, hit |-> FALSE, value |-> None, exc |-> "none"]

\* a variant that evicts nothing
EvictNothing(c) == c

\* a variant that evicts the entry inserted first
EvictFirstInserted(c) ==
    IF c.access_times = <<>> THEN c
    ELSE [c EXCEPT !.cache = MapDel(@, c.access_times[1][1]),
                   !.access_times = Tail(@)]

\* TTLCache._evict_lru: min() returns the first key of least access time
_evict_lru(c) ==
    IF c.access_times = <<>> THEN c
    ELSE LET at == c.access_times
             i == CHOOSE i \in 1..Len(at) :
                      /\ \A j \in 1..Len(at) : at[i][2] <= at[j][2]
                      /\ \A j \in 1..(i - 1) : at[j][2] > at[i][2]
             oldest_key == at[i][1]
         IN  [c EXCEPT !.cache = MapDel(@, oldest_key),
                       !.access_times = AtDel(@, oldest_key)]

\* a variant that keeps the value of an entry already present
CacheSetKeepsValue(c, word, dict_type, value, ttl, t) ==
    LET c1 == IF Cardinality(DOMAIN c.cache) >= c.max_size
              THEN _evict_lru(c) ELSE c
        key == _make_key(word, dict_type)
        kept == IF key \in DOMAIN c1.cache THEN c1.cache[key].value
                ELSE value
    IN  [c1 EXCEPT !.cache = MapPut(@, key, [value |-> kept,
                                             expires_at |-> t + ttl]),
                   !.access_times = AtPut(@, key, t)]

\* TTLCache.set
CacheSet(c, word, dict_type, value, ttl, t) ==
    LET c1 == IF Cardinality(DOMAIN c.cache) >= c.max_size
              THEN _evict_lru(c) ELSE c
        key == _make_key(word, dict_type)
    IN  [c1 EXCEPT !.cache = MapPut(@, key, [value |-> value,
                                             expires_at |-> t + ttl]),
                   !.access_times = AtPut(@, key, t)]

\* TTLCache.clear
CacheClear(c) ==
    [c EXCEPT !.cache = [k \in {} |-> TRUE], !.access_times = <<>>]

\* TTLCache.size
CacheSize(c) == Cardinality(DOMAIN c.cache)

(***************************************************************************)
(* The global token bucket the server charges: consume, can_consume and    *)
(* get_remaining_tokens.  b is [tokens60, last_refill].                    *)
(***************************************************************************)
Refill(b, t) ==
    [tokens60 |-> Min(REQUESTS_PER_MINUTE * SECONDS_PER_MINUTE,
                      b.tokens60 + (t - b.last_refill) * REQUESTS_PER_MINUTE),
     last_refill |-> t]

consume(b, n, t) ==
    LET r == Refill(b, t) IN
    IF r.tokens60 >= n * SECONDS_PER_MINUTE
    THEN [b |-> [r EXCEPT !.tokens60 = @ - n * SECONDS_PER_MINUTE],
          ok |-> TRUE]
    ELSE [b |-> r, ok |-> FALSE]

can_consume(b, n, t) == Refill(b, t).tokens60 >= n * SECONDS_PER_MINUTE

get_remaining_tokens(b, t) == Refill(b, t).tokens60 \div SECONDS_PER_MINUTE

\* a variant that lets the request pass without charging the bucket
CheckRateLimitGrantsWithoutCharge(b, tokens, t) ==
    [b |-> b, remaining |-> -1]

CheckRateLimitAlwaysGrant(b, tokens, t) ==
    [b |-> consume(b, tokens, t).b, remaining |-> -1]

\* a variant whose denied charge takes the tokens that are left
CheckRateLimitTakesTheRest(b, tokens, t) ==
    LET r == consume(b, tokens, t) IN
    IF ~r.ok
    THEN [b |-> [r.b EXCEPT !.tokens60 = 0],
          remaining |-> get_remaining_tokens(r.b, t)]
    ELSE [b |-> r.b, remaining |-> -1]

\* _check_rate_limit: remaining is -1 where the code returns None
_check_rate_limit(b, tokens, t) ==
    LET r == consume(b, tokens, t) IN
    IF ~r.ok
    THEN [b |-> r.b, remaining |-> get_remaining_tokens(r.b, t)]
    ELSE [b |-> r.b, remaining |-> -1]

\* a variant that takes the token off the bucket before it looks
TryConsumeRetryTokenOverdraws(b, tokens, t) ==
    IF ~can_consume(b, tokens, t)
    THEN [b |-> [Refill(b, t) EXCEPT
                    !.tokens60 = @ - tokens * SECONDS_PER_MINUTE],
          ok |-> FALSE]
    ELSE consume(b, tokens, t)

\* a variant that grants the retry token without asking the bucket
TryConsumeRetryTokenUnchecked(b, tokens, t) == [b |-> b, ok |-> TRUE]

\* _try_consume_retry_token
_try_consume_retry_token(b, tokens, t) ==
    IF ~can_consume(b, tokens, t)
    THEN [b |-> b, ok |-> FALSE]
    ELSE consume(b, tokens, t)

Max(a, b) == IF a > b THEN a ELSE b

RECURSIVE Pow2(_)
Pow2(n) == IF n <= 0 THEN 1 ELSE 2 * Pow2(n - 1)

\* a variant that does not cap the Retry-After wait
BackoffDelayUncappedRetryAfter(retry_index, base_delay, max_delay, retry_after) ==
    LET exp == base_delay * Pow2(retry_index - 1)
        cap == Min(max_delay, exp)
    IN  IF retry_after # <<>>
        THEN LET wait == Max(cap, retry_after[1])
                 extra_cap == Max(0, Min(max_delay - wait, wait \div 10))
             IN  {wait + j : j \in 0..extra_cap}
        ELSE 0..cap

\* _compute_backoff_delay: the values it can return; random.uniform(0, x)
\* returns any value from 0 to x.  retry_after is <<>> for None and <<r>>
\* for r seconds; the delays are integers, in a unit of which base_delay,
\* max_delay and retry_after hold a multiple of ten, so that wait * 0.1 is
\* exact.
_compute_backoff_delay(retry_index, base_delay, max_delay, retry_after) ==
    LET exp == base_delay * Pow2(retry_index - 1)
        cap == Min(max_delay, exp)
    IN  IF retry_after # <<>>
        THEN LET wait == Min(max_delay, Max(cap, retry_after[1]))
                 extra_cap == Max(0, Min(max_delay - wait, wait \div 10))
             IN  {wait + j : j \in 0..extra_cap}
        ELSE 0..cap

\* retry_after=retry_after if status_code == 429 else None; the clauses of
\* a timeout and of a connection failure (status 0) pass no retry_after
RetryAfterArgument(status_code, retry_after) ==
    IF status_code = 429 THEN retry_after ELSE <<>>

\* a variant that gives every result list the default TTL
CacheTtlAlwaysDefault(results) == CACHE_TTL

\* _cache_ttl_for_results
_cache_ttl_for_results(results) ==
    IF Len(results) = 0 THEN CACHE_NEGATIVE_TTL ELSE CACHE_TTL

\* a variant that takes every error status for retryable
RetryableAnyErrorStatus(status_code) ==
    status_code >= 400

\* _is_retryable_upstream_status
_is_retryable_upstream_status(status_code) ==
    status_code \in {429, 500, 502, 503, 504}

\* a variant without the clause for 429
HttpErrorTypeWithout429(status_code) ==
    IF 500 <= status_code /\ status_code < 600
    THEN "upstream_server_error"
    ELSE "http_error"

\* _http_error_type_for_upstream_status
_http_error_type_for_upstream_status(status_code) ==
    IF status_code = 429 THEN "upstream_rate_limit"
    ELSE IF 500 <= status_code /\ status_code < 600
         THEN "upstream_server_error"
         ELSE "http_error"

\* _build_success_json
_build_success_json(word, dict_type, results, from_cache) ==
    dumps_json(build_success_item(word, dict_type, results, from_cache,
                                  FALSE, word, TRUE))

(***************************************************************************)
(* client.py and parser.py, as the pipelines use them.                     *)
(***************************************************************************)
DICT_CODE_MAP == {"ko-zh", "ko-en"}

NoExc == [kind |-> "none", status |-> 0, msg |-> "", n |-> 0]
Exc(kind, status, msg, n) ==
    [kind |-> kind, status |-> status, msg |-> msg, n |-> n]

\* NaverClient.search up to the HTTP request: the ValidationError it raises,
\* a variant that does not look at dict_type
ClientValidateWordOnly(word, dict_type) ==
    IF word = <<>> THEN Exc("ValidationError", 0, "empty", 0)
    ELSE IF Strip(word) = <<>> THEN Exc("ValidationError", 0, "blank", 0)
    ELSE IF Len(Strip(word)) > MAX_WORD_LEN
         THEN Exc("ValidationError", 0, "too_long", Len(Strip(word)))
    ELSE NoExc

\* or NoExc when the request is sent
ClientValidate(word, dict_type) ==
    IF word = <<>> THEN Exc("ValidationError", 0, "empty", 0)
    ELSE IF Strip(word) = <<>> THEN Exc("ValidationError", 0, "blank", 0)
    ELSE IF Len(Strip(word)) > MAX_WORD_LEN
         THEN Exc("ValidationError", 0, "too_long", Len(Strip(word)))
    ELSE IF dict_type \notin DICT_CODE_MAP
         THEN Exc("ValidationError", 0, "bad_dict_type", 0)
    ELSE NoExc

\* What the upstream can answer to one request: a JSON body with n entries,
\* a body the parser cannot walk, an HTTP error status, a timeout, a
\* connection failure.
HttpStatuses == {404, 429, 500, 502, 503, 504}
UpstreamAnswers ==
    [kind : {"ok"}, status : {200}, n : 0..1]
    \cup [kind : {"bad_type", "bad_attr"}, status : {200}, n : {0}]
    \cup [kind : {"http"}, status : HttpStatuses, n : {0}]
    \cup [kind : {"timeout", "network"}, status : {0}, n : {0}]

\* the exception client.search raises for an answer that is not a body
AnswerExc(answer) ==
    IF answer.kind = "http" THEN Exc("HTTPStatusError", answer.status, "", 0)
    ELSE IF answer.kind = "timeout" THEN Exc("TimeoutException", 0, "", 0)
    ELSE Exc("RequestError", 0, "", 0)

\* parse_search_results: the entries of the WORD section, or the exception
\* raised on a body of another structure
parse_search_results(data) ==
    IF data.kind = "bad_type"
    THEN [exc |-> Exc("TypeError", 0, "", 0), results |-> <<>>]
    ELSE IF data.kind = "bad_attr"
    THEN [exc |-> Exc("AttributeError", 0, "", 0), results |-> <<>>]
    ELSE [exc |-> NoExc, results |-> Rep("entry", data.n)]

(***************************************************************************)
(* _upstream_search_with_retry.  f is the state of one invocation:         *)
(*   pc       "ready"    about to enter an attempt (waits for the          *)
(*                       semaphore when there is one)                      *)
(*            "inflight" awaiting client.search                            *)
(*            "sleeping" in asyncio.sleep(delay)                           *)
(*            "returned" / "raised"                                        *)
(*   attempt  the loop variable; calls, sleeps, retry_tokens count the     *)
(*   client.search calls, the sleeps and the retry tokens obtained.        *)
(***************************************************************************)
NoData == [kind |-> "none", status |-> 0, n |-> 0]

NewFetch ==
    [pc |-> "ready", attempt |-> 1, exc |-> NoExc, data |-> NoData,
     calls |-> 0, sleeps |-> 0, retry_tokens |-> 0]

\* the call of client.search of the current attempt
FetchCall(f, word, dict_type) ==
    LET v == ClientValidate(word, dict_type) IN
    IF v.kind # "none"
    THEN [f EXCEPT !.pc = "raised", !.exc = v, !.calls = @ + 1]
    ELSE [f EXCEPT !.pc = "inflight", !.calls = @ + 1]

\* a variant that keeps the exception of the first failed attempt
FetchAnswerKeepsFirstError(f, answer) ==
    IF answer.kind \in {"ok", "bad_type", "bad_attr"}
    THEN [f EXCEPT !.pc = "returned", !.data = answer]
    ELSE LET e == IF f.exc.kind = "none" THEN AnswerExc(answer) ELSE f.exc IN
         IF e.kind = "HTTPStatusError"
         THEN IF (f.attempt >= UPSTREAM_RETRY_MAX_ATTEMPTS)
                 \/ ~_is_retryable_upstream_status(e.status)
              THEN [f EXCEPT !.pc = "raised", !.exc = e]
              ELSE [f EXCEPT !.pc = "sleeping", !.exc = e, !.sleeps = @ + 1]
         ELSE IF f.attempt >= UPSTREAM_RETRY_MAX_ATTEMPTS
              THEN [f EXCEPT !.pc = "raised", !.exc = e]
              ELSE [f EXCEPT !.pc = "sleeping", !.exc = e, !.sleeps = @ + 1]

\* a variant that does not retry a timeout
FetchAnswerTimeoutNotRetried(f, answer) ==
    IF answer.kind \in {"ok", "bad_type", "bad_attr"}
    THEN [f EXCEPT !.pc = "returned", !.data = answer]
    ELSE LET e == AnswerExc(answer) IN
         IF e.kind = "HTTPStatusError"
         THEN IF (f.attempt >= UPSTREAM_RETRY_MAX_ATTEMPTS)
                 \/ ~_is_retryable_upstream_status(e.status)
              THEN [f EXCEPT !.pc = "raised", !.exc = e]
              ELSE [f EXCEPT !.pc = "sleeping", !.exc = e, !.sleeps = @ + 1]
         ELSE IF f.attempt >= UPSTREAM_RETRY_MAX_ATTEMPTS
                 \/ e.kind = "TimeoutException"
              THEN [f EXCEPT !.pc = "raised", !.exc = e]
              ELSE [f EXCEPT !.pc = "sleeping", !.exc = e, !.sleeps = @ + 1]

\* client.search finishes with the answer: return, raise, or sleep
FetchAnswer(f, answer) ==
    IF answer.kind \in {"ok", "bad_type", "bad_attr"}
    THEN [f EXCEPT !.pc = "returned", !.data = answer]
    ELSE LET e == AnswerExc(answer) IN
         IF e.kind = "HTTPStatusError"
         THEN IF (f.attempt >= UPSTREAM_RETRY_MAX_ATTEMPTS)
                 \/ ~_is_retryable_upstream_status(e.status)
              THEN [f EXCEPT !.pc = "raised", !.exc = e]
              ELSE [f EXCEPT !.pc = "sleeping", !.exc = e, !.sleeps = @ + 1]
         ELSE IF f.attempt >= UPSTREAM_RETRY_MAX_ATTEMPTS
              THEN [f EXCEPT !.pc = "raised", !.exc = e]
              ELSE [f EXCEPT !.pc = "sleeping", !.exc = e, !.sleeps = @ + 1]

\* a variant that retries without asking the bucket
FetchWakeWithoutToken(f, b, t) ==
    [f |-> [f EXCEPT !.pc = "ready", !.attempt = @ + 1], b |-> b]

\* after the sleep: the retry token, then `continue` or `raise`
FetchWake(f, b, t) ==
    LET r == _try_consume_retry_token(b, 1, t) IN
    IF ~r.ok
    THEN [f |-> [f EXCEPT !.pc = "raised"], b |-> r.b]
    ELSE [f |-> [f EXCEPT !.pc = "ready", !.attempt = @ + 1,
                          !.retry_tokens = @ + 1],
          b |-> r.b]

(***************************************************************************)
(* The except clauses of _search_word_impl and of fetch_one: the error     *)
(* item built for an exception.                                            *)
(***************************************************************************)
HTTP_TIMEOUT == 30

ErrorMessages == {400, 404, 429, 500, 502, 503}

HttpErrorMsg(error_type, status_code) ==
    IF error_type = "upstream_rate_limit" THEN <<"msg", 429>>
    ELSE IF status_code \in ErrorMessages THEN <<"msg", status_code>>
    ELSE IF error_type = "upstream_server_error"
         THEN <<"upstream", status_code>>
         ELSE <<"http", status_code>>

ErrorItemForExc(e, w, dict_type, include_dict_type) ==
    IF e.kind = "ValidationError"
    THEN build_error_item(w, dict_type, <<"validation", 0>>, "validation",
                          <<e.msg, e.n>>, FALSE, FALSE, w, include_dict_type)
    ELSE IF e.kind = "TimeoutException"
    THEN build_error_item(w, dict_type, <<"timeout", 0>>, "timeout",
                          <<"timeout", HTTP_TIMEOUT>>, FALSE, FALSE, w,
                          include_dict_type)
    ELSE IF e.kind = "HTTPStatusError"
    THEN LET error_type == _http_error_type_for_upstream_status(e.status) IN
         build_error_item(w, dict_type, HttpErrorMsg(error_type, e.status),
                          error_type, <<"http", e.status>>, FALSE, FALSE, w,
                          include_dict_type)
    ELSE IF e.kind = "RequestError"
    THEN build_error_item(w, dict_type, <<"network", 0>>, "network_error",
                          <<"network", 0>>, FALSE, FALSE, w,
                          include_dict_type)
    ELSE IF e.kind \in {"KeyError", "ValueError", "TypeError",
                        "UnicodeEncodeError"}
    THEN build_error_item(w, dict_type, <<"parse", 0>>, "parse_error",
                          <<"parse", 0>>, FALSE, FALSE, w, include_dict_type)
    ELSE build_error_item(w, dict_type, <<"unknown", 0>>, "unknown",
                          <<e.kind, 0>>, FALSE, FALSE, w, include_dict_type)

(***************************************************************************)
(* State.                                                                  *)
(***************************************************************************)
EmptyDict == [k \in {} |-> TRUE]

\* the global instance: TTLCache(max_size=config.CACHE_MAX_SIZE, ...)
TheCache ==
    [cache |-> cache, access_times |-> access_times,
     max_size |-> CACHE_MAX_SIZE]

\* the state a call found: what the properties compare the outcome with
NoPre ==
    [cache |-> EmptyDict, access_times |-> <<>>,
     bucket |-> [tokens60 |-> 0, last_refill |-> 0], now |-> 0]

Pre ==
    [cache |-> cache, access_times |-> access_times, bucket |-> bucket,
     now |-> now]

SwIdle ==
    [pc |-> "idle", word |-> <<>>, dict_type |-> "", normalized |-> None,
     f |-> NewFetch, last |-> NoData, answers |-> 0,
     resp |-> dumps_json(EmptyDict),
     pre |-> NoPre]

BtIdle ==
    [pc |-> "idle", words |-> <<>>, dict_type |-> "",
     return_cached_json |-> FALSE, results |-> <<>>, stage1 |-> <<>>,
     miss |-> <<>>, tasks |-> <<>>, completion |-> <<>>,
     resp |-> dumps_json(EmptyDict), exc |-> "none", pre |-> NoPre]

\* co: the method called, its arguments, the time of the call, what get
\* returned, and what the call found: whether the key was present (had),
\* the cache full, the key the first in insertion order (first), another
\* entry last accessed before the call (older); prev is the call before it
NoOp ==
    [op |-> "none", key |-> <<>>, value |-> "", ttl |-> 0, t |-> 0,
     hit |-> FALSE, got |-> "", had |-> FALSE, full |-> FALSE,
     first |-> FALSE, older |-> FALSE]

\* what co keeps of the call before
PrevFields == {"op", "key", "value", "ttl", "t", "hit", "had", "first", "older"}

NoCall == NoOp @@ [prev |-> [m \in PrevFields |-> NoOp[m]]]

\* lim: buckets is RateLimiter.buckets, client_id -> [last_check, tokens];
\* track keeps for every bucket the time it was created full, the number of
\* requests it allowed, whether it denied one and the time of the latest
\* request it allowed; last is the latest call, with the bucket it found
NoLimiterCall ==
    [op |-> "none", client_id |-> "", ok |-> FALSE, remaining |-> 0,
     t |-> 0, had |-> FALSE, tokens |-> 0, last_check |-> 0,
     granted_at |-> 0]

NoLimiter ==
    [buckets |-> [c \in {} |-> TRUE], track |-> [c \in {} |-> TRUE],
     last |-> NoLimiterCall]

\* fn: the function called, its arguments and what it returned
NoFn == [op |-> "none"]

Init ==
    /\ now = 0
    /\ cache = EmptyDict
    /\ access_times = <<>>
    /\ bucket = [tokens60 |-> REQUESTS_PER_MINUTE * SECONDS_PER_MINUTE,
                 last_refill |-> 0]
    /\ sw = SwIdle
    /\ bt = BtIdle
    /\ co = NoCall
    /\ lim = NoLimiter
    /\ fn = NoFn

NoRun == sw.pc = "idle" /\ bt.pc = "idle"

\* time passes, while no response is being handed over
Tick ==
    /\ sw.pc # "done" /\ bt.pc \notin {"done", "raised"}
    /\ now + TickStep <= MaxTime
    /\ now' = now + TickStep
    /\ UNCHANGED <<cache, access_times, bucket, sw, bt, co, lim, fn>>

(***************************************************************************)
(* _search_word_impl.                                                      *)
(***************************************************************************)
LongWord == Rep("a", MAX_WORD_LEN + 1)

SearchInputs ==
    {None, <<>>, <<" ">>, <<"a">>, <<" ", "a">>, <<"a", "~">>, LongWord,
     <<LoneSurrogate>>}

InputDictTypes == DICT_CODE_MAP \cup {"xx"}

\* In sw, last is the latest answer of the upstream, answers the number of
\* answers, and pre the state the call found; they record the run for the
\* properties.
\* w = normalized_word if normalized_word is not None else (word or "")
SwErrorWord(run) ==
    IF run.normalized # None THEN run.normalized ELSE OrEmpty(run.word)

\* an except clause of _search_word_impl returns the error response
SwRaise(run, e) ==
    [run EXCEPT !.pc = "done",
                !.resp = dumps_json(ErrorItemForExc(e, SwErrorWord(run),
                                                    run.dict_type, TRUE))]

\* a variant that also caches the error response of a failed fetch
SwAfterFetchCachesErrors(run, c, t) ==
    IF run.f.pc = "raised"
    THEN [run |-> SwRaise(run, run.f.exc),
          c |-> CacheSet(c, run.normalized, run.dict_type,
                         SwRaise(run, run.f.exc).resp, CACHE_NEGATIVE_TTL, t)]
    ELSE IF run.f.pc = "returned"
    THEN LET parsed == parse_search_results(run.f.data) IN
         IF parsed.exc.kind # "none"
         THEN [run |-> SwRaise(run, parsed.exc), c |-> c]
         ELSE LET result_json ==
                      _build_success_json(run.normalized, run.dict_type,
                                          parsed.results, FALSE)
              IN  [run |-> [run EXCEPT !.pc = "done", !.resp = result_json],
                   c |-> CacheSet(c, run.normalized, run.dict_type,
                                  result_json,
                                  _cache_ttl_for_results(parsed.results), t)]
    ELSE [run |-> [run EXCEPT !.pc = run.f.pc], c |-> c]

\* lines 373-403: after the cache miss and the granted token, from the call
\* of the retry orchestrator on; the result is [run, c]
SwAfterFetch(run, c, t) ==
    IF run.f.pc = "raised" THEN [run |-> SwRaise(run, run.f.exc), c |-> c]
    ELSE IF run.f.pc = "returned"
    THEN LET parsed == parse_search_results(run.f.data) IN
         IF parsed.exc.kind # "none"
         THEN [run |-> SwRaise(run, parsed.exc), c |-> c]
         ELSE LET result_json ==
                      _build_success_json(run.normalized, run.dict_type,
                                          parsed.results, FALSE)
              IN  [run |-> [run EXCEPT !.pc = "done", !.resp = result_json],
                   c |-> CacheSet(c, run.normalized, run.dict_type,
                                  result_json,
                                  _cache_ttl_for_results(parsed.results), t)]
    ELSE [run |-> [run EXCEPT !.pc = run.f.pc], c |-> c]

\* search_word(word, dict_type) up to its first suspension
SwBegin(word, dict_type) ==
    /\ sw.pc = "idle"
    /\ LET run0 == [SwIdle EXCEPT !.word = word, !.dict_type = dict_type,
                                  !.pre = Pre]
           nz == _normalize_word(word)
       IN
       IF ~nz.ok
       THEN /\ sw' = SwRaise(run0, Exc("ValidationError", 0, nz.msg, nz.n))
            /\ UNCHANGED <<cache, access_times, bucket>>
       ELSE LET run1 == [run0 EXCEPT !.normalized = nz.word]
                g == CacheGet(TheCache, nz.word, dict_type, now)
            IN
            IF g.exc # "none"
            THEN /\ sw' = SwRaise(run1, Exc(g.exc, 0, "", 0))
                 /\ UNCHANGED <<cache, access_times, bucket>>
            ELSE IF g.hit
            THEN /\ sw' = [run1 EXCEPT
                               !.pc = "done",
                               !.resp = patch_from_cache_flag(g.value, TRUE)]
                 /\ cache' = g.c.cache
                 /\ access_times' = g.c.access_times
                 /\ UNCHANGED bucket
            ELSE LET rl == _check_rate_limit(bucket, 1, now) IN
                 IF rl.remaining # -1
                 THEN /\ sw' = [run1 EXCEPT
                                 !.pc = "done",
                                 !.resp = dumps_json(build_error_item(
                                     nz.word, dict_type, <<"rate_limit", 0>>,
                                     "rate_limit",
                                     <<"remaining", rl.remaining>>,
                                     FALSE, FALSE, nz.word, TRUE))]
                      /\ cache' = g.c.cache
                      /\ access_times' = g.c.access_times
                      /\ bucket' = rl.b
                 ELSE LET run2 == [run1 EXCEPT
                                     !.f = FetchCall(NewFetch, nz.word,
                                                     dict_type)]
                          r == SwAfterFetch(run2, g.c, now)
                      IN  /\ sw' = r.run
                          /\ cache' = r.c.cache
                          /\ access_times' = r.c.access_times
                          /\ bucket' = rl.b
    /\ UNCHANGED <<now, bt, co, lim, fn>>

\* search_word called while no other call is in progress
SwStart(word, dict_type) == NoRun /\ SwBegin(word, dict_type)

\* the upstream answers the request of search_word
SwAnswer(answer) ==
    /\ sw.pc = "inflight"
    /\ LET r == SwAfterFetch([sw EXCEPT !.f = FetchAnswer(sw.f, answer),
                                        !.last = answer,
                                        !.answers = @ + 1],
                             TheCache, now)
       IN  /\ sw' = r.run
           /\ cache' = r.c.cache
           /\ access_times' = r.c.access_times
    /\ UNCHANGED <<now, bucket, bt, co, lim, fn>>

\* the backoff sleep of search_word ends
SwWake ==
    /\ sw.pc = "sleeping"
    /\ LET w == FetchWake(sw.f, bucket, now)
           f2 == IF w.f.pc = "ready"
                 THEN FetchCall(w.f, sw.normalized, sw.dict_type)
                 ELSE w.f
           r == SwAfterFetch([sw EXCEPT !.f = f2], TheCache, now)
       IN  /\ sw' = r.run
           /\ cache' = r.c.cache
           /\ access_times' = r.c.access_times
           /\ bucket' = w.b
    /\ UNCHANGED <<now, bt, co, lim, fn>>

\* the caller has the response of search_word
SwReturn ==
    /\ sw.pc = "done"
    /\ sw' = SwIdle
    /\ UNCHANGED <<now, cache, access_times, bucket, bt, co, lim, fn>>

NextSingle ==
    \/ Tick
    \/ SwReturn
    \/ \E word \in SearchInputs, dict_type \in InputDictTypes :
           SwStart(word, dict_type)
    \/ \E answer \in UpstreamAnswers : SwAnswer(answer)
    \/ SwWake

SpecSingle == Init /\ [][NextSingle]_vars

(***************************************************************************)
(* _batch_search_words_impl.  Positions are counted from 1.                *)
(*   results   the pre-sized result list                                   *)
(*   miss      miss_indices_by_word in insertion order: [word, indices]    *)
(*   tasks     one fetch_one per entry of miss_words: [word, f, item,      *)
(*             done]                                                       *)
(* stage1 (the result list after the first loop), completion (the order    *)
(* in which the fetches finished) and pre (the state the call found)       *)
(* record the run for the properties.                                      *)
(***************************************************************************)
BATCH_ITEM_INCLUDE_DICT_TYPE == FALSE

\* miss_indices_by_word.setdefault(normalized_word, []).append(idx)
MissAppendNoDedup(miss, w, idx) ==
    Append(miss, [word |-> w, indices |-> <<idx>>])

MissAppend(miss, w, idx) ==
    IF \E k \in 1..Len(miss) : miss[k].word = w
    THEN LET k == CHOOSE k \in 1..Len(miss) : miss[k].word = w
         IN  [miss EXCEPT ![k].indices = Append(@, idx)]
    ELSE Append(miss, [word |-> w, indices |-> <<idx>>])

\* the item of a cache hit (lines 631-659)
CachedItem(normalized_word, dict_type, cached, return_cached_json) ==
    IF return_cached_json
    THEN build_cached_json_item(normalized_word, dict_type, cached, FALSE,
                                normalized_word,
                                BATCH_ITEM_INCLUDE_DICT_TYPE)
    ELSE LET cached_data == json_loads(cached)
             cached_results == IF "results" \in DOMAIN cached_data
                               THEN cached_data.results ELSE <<>>
             item == build_success_item(normalized_word, dict_type,
                                        cached_results, TRUE, FALSE,
                                        normalized_word,
                                        BATCH_ITEM_INCLUDE_DICT_TYPE)
         IN  IF "count" \in DOMAIN cached_data
             THEN [item EXCEPT !.count = cached_data.count]
             ELSE item

\* one round of the first loop (lines 611-662); st is [c, results, miss,
\* exc], exc the exception that left the loop and the call
Stage1Step(st, idx, raw_word, dict_type, return_cached_json, t) ==
    LET nz == _normalize_word(raw_word) IN
    IF ~nz.ok
    THEN LET w == OrEmpty(raw_word) IN
         [st EXCEPT !.results[idx] =
             build_error_item(w, dict_type, <<"validation", 0>>,
                              "validation", <<nz.msg, nz.n>>, FALSE, FALSE,
                              Strip(w), BATCH_ITEM_INCLUDE_DICT_TYPE)]
    ELSE LET g == CacheGet(st.c, nz.word, dict_type, t) IN
         IF g.exc # "none" THEN [st EXCEPT !.exc = g.exc]
         ELSE IF g.hit
         THEN [st EXCEPT !.c = g.c,
                         !.results[idx] =
                             CachedItem(nz.word, dict_type, g.value,
                                        return_cached_json)]
         ELSE [st EXCEPT !.c = g.c,
                         !.miss = MissAppend(@, nz.word, idx)]

RECURSIVE Stage1(_, _, _, _, _, _)
Stage1(st, idx, words, dict_type, return_cached_json, t) ==
    IF idx > Len(words) \/ st.exc # "none" THEN st
    ELSE Stage1(Stage1Step(st, idx, words[idx], dict_type,
                           return_cached_json, t),
                idx + 1, words, dict_type, return_cached_json, t)

RateLimitFillAll(results, miss, dict_type, remaining) ==
    [i \in 1..Len(results) |->
        build_error_item(miss[1].word, dict_type, <<"rate_limit", 0>>,
                         "rate_limit", <<"remaining", remaining>>, FALSE,
                         i # miss[1].indices[1], miss[1].word,
                         BATCH_ITEM_INCLUDE_DICT_TYPE)]

\* lines 670-684: the rate_limit items of the miss positions
RECURSIVE RateLimitFill(_, _, _, _)
RateLimitFill(results, miss, dict_type, remaining) ==
    IF miss = <<>> THEN results
    ELSE LET w == Head(miss).word
             indices == Head(miss).indices
             source_idx == indices[1]
             filled ==
                 [i \in 1..Len(results) |->
                     IF \E j \in 1..Len(indices) : indices[j] = i
                     THEN build_error_item(w, dict_type, <<"rate_limit", 0>>,
                                           "rate_limit",
                                           <<"remaining", remaining>>, FALSE,
                                           i # source_idx, w,
                                           BATCH_ITEM_INCLUDE_DICT_TYPE)
                     ELSE results[i]]
         IN  RateLimitFill(filled, Tail(miss), dict_type, remaining)

\* fetched_by_word[w]: the dict comprehension keeps the last item of a word
FetchedByWord(fetched, w) ==
    LET k == CHOOSE k \in 1..Len(fetched) :
                 /\ fetched[k].word = w
                 /\ \A j \in (k + 1)..Len(fetched) : fetched[j].word # w
    IN  fetched[k]

ScatterNoDedupMark(results, miss, fetched) ==
    [i \in 1..Len(results) |->
        IF \E k \in 1..Len(miss) :
               \E j \in 1..Len(miss[k].indices) : miss[k].indices[j] = i
        THEN LET k == CHOOSE k \in 1..Len(miss) :
                          \E j \in 1..Len(miss[k].indices) :
                              miss[k].indices[j] = i
             IN  [FetchedByWord(fetched, miss[k].word) EXCEPT
                      !.source_word = miss[k].word]
        ELSE results[i]]

\* lines 815-826: every position of a miss word gets the item of the word
RECURSIVE Scatter(_, _, _)
Scatter(results, miss, fetched) ==
    IF miss = <<>> THEN results
    ELSE LET w == Head(miss).word
             item == FetchedByWord(fetched, w)
             indices == Head(miss).indices
             source_idx == indices[1]
             filled ==
                 [i \in 1..Len(results) |->
                     IF \E j \in 1..Len(indices) : indices[j] = i
                     THEN [item EXCEPT !.deduped = (i # source_idx),
                                       !.source_word = w]
                     ELSE results[i]]
         IN  Scatter(filled, Tail(miss), fetched)

BatchTooLongAtTwelve(words) == Len(words) >= MAX_BATCH_WORDS + 2

\* len(words) > 10
BatchTooLong(words) == Len(words) > MAX_BATCH_WORDS


\* lines 828-839: the response of a run that passed the input validation
BatchDone(run, results, t) ==
    [run EXCEPT !.pc = "done",
                !.results = results,
                !.resp = dumps_json(build_batch_payload(
                             run.dict_type, results, t - run.pre.now))]

RECURSIVE ScatterZip(_, _, _)
ScatterZip(results, miss, fetched) ==
    IF miss = <<>> THEN results
    ELSE LET indices == Head(miss).indices
             filled ==
                 [i \in 1..Len(results) |->
                     IF \E j \in 1..Len(indices) : indices[j] = i
                     THEN [Head(fetched) EXCEPT
                              !.deduped = (i # indices[1]),
                              !.source_word = Head(miss).word]
                     ELSE results[i]]
         IN  ScatterZip(filled, Tail(miss), Tail(fetched))

\* the items taken in the order the fetches finished and paired with
\* miss_words by position
GatheredAsCompleted(run, t) ==
    IF \A k \in 1..Len(run.tasks) : run.tasks[k].done
    THEN LET fetched == [k \in 1..Len(run.completion) |->
                            run.tasks[run.completion[k]].item]
         IN  BatchDone(run, ScatterZip(run.results, run.miss, fetched), t)
    ELSE run

\* lines 814-826, once asyncio.gather has the item of every fetch
Gathered(run, t) ==
    IF \A k \in 1..Len(run.tasks) : run.tasks[k].done
    THEN LET fetched == [k \in 1..Len(run.tasks) |-> run.tasks[k].item]
         IN  BatchDone(run, Scatter(run.results, run.miss, fetched), t)
    ELSE run

\* fetch_one after _upstream_search_with_retry has returned or raised
\* (lines 699-812); the result is [task, c]
TaskAfterFetch(task, dict_type, c, t) ==
    IF task.f.pc = "raised"
    THEN [task |-> [task EXCEPT
                      !.done = TRUE,
                      !.item = ErrorItemForExc(task.f.exc, task.word,
                                               dict_type,
                                               BATCH_ITEM_INCLUDE_DICT_TYPE)],
          c |-> c]
    ELSE IF task.f.pc = "returned"
    THEN LET parsed == parse_search_results(task.f.data) IN
         IF parsed.exc.kind # "none"
         THEN [task |-> [task EXCEPT
                           !.done = TRUE,
                           !.item = ErrorItemForExc(
                                        parsed.exc, task.word, dict_type,
                                        BATCH_ITEM_INCLUDE_DICT_TYPE)],
               c |-> c]
         ELSE [task |-> [task EXCEPT
                           !.done = TRUE,
                           !.item = build_success_item(
                                        task.word, dict_type, parsed.results,
                                        FALSE, FALSE, task.word,
                                        BATCH_ITEM_INCLUDE_DICT_TYPE)],
               c |-> CacheSet(c, task.word, dict_type,
                              _build_success_json(task.word, dict_type,
                                                  parsed.results, FALSE),
                              _cache_ttl_for_results(parsed.results), t)]
    ELSE [task |-> task, c |-> c]

\* the holders of the semaphore: the fetches inside "async with semaphore"
Inflight(run) ==
    Cardinality({k \in 1..Len(run.tasks) : run.tasks[k].f.pc = "inflight"})

\* fetch k goes on with orchestrator state f2; rc is [run, c]
TaskRun(rc, k, f2, t) ==
    LET r == TaskAfterFetch([rc.run.tasks[k] EXCEPT !.f = f2],
                            rc.run.dict_type, rc.c, t)
    IN  [run |-> [rc.run EXCEPT
                    !.tasks[k] = r.task,
                    !.completion = IF r.task.done THEN Append(@, k) ELSE @],
         c |-> r.c]

\* a variant without the semaphore
TaskEnterWithoutSemaphore(rc, k, t) ==
    TaskRun(rc, k, FetchCall(rc.run.tasks[k].f, rc.run.tasks[k].word,
                             rc.run.dict_type), t)

\* fetch k enters the semaphore, if it is free, and calls client.search
TaskEnter(rc, k, t) ==
    IF Inflight(rc.run) < BATCH_CONCURRENCY
    THEN TaskRun(rc, k, FetchCall(rc.run.tasks[k].f, rc.run.tasks[k].word,
                                  rc.run.dict_type), t)
    ELSE rc

\* asyncio.gather starts the fetches in the order of miss_words; each runs
\* up to its first suspension
RECURSIVE StartTasks(_, _, _)
StartTasks(rc, k, t) ==
    IF k > Len(rc.run.tasks) THEN rc
    ELSE StartTasks(TaskEnter(rc, k, t), k + 1, t)

\* the answers the upstream gives: without and with a retryable failure
PlainAnswers ==
    {a \in UpstreamAnswers :
        a.kind = "ok" \/ (a.kind = "http" /\ a.status = 404)}

RetryAnswers ==
    {a \in UpstreamAnswers :
        \/ (a.kind = "ok" /\ a.n = 1)
        \/ (a.kind = "http" /\ a.status \in {404, 503})}

BatchWordInputs == {<<>>, <<"a">>, <<" ", "a">>, <<"b">>}

RECURSIVE SeqsUpTo(_, _)
SeqsUpTo(S, n) ==
    IF n = 0 THEN {<<>>}
    ELSE LET shorter == SeqsUpTo(S, n - 1) IN
         shorter \cup {Append(q, x) : q \in shorter, x \in S}

BatchInputs ==
    SeqsUpTo(BatchWordInputs, MaxWords) \cup {Rep(<<"a">>, MAX_BATCH_WORDS + 1)}

\* dict_type and return_cached_json; no entry is ever stored for "xx", so
\* return_cached_json has nothing to act on there
BatchCalls == ({"ko-zh"} \X BOOLEAN) \cup {<<"xx", FALSE>>}

RetryBatchInputs ==
    {<<(<<"a">>), (<<" ", "a">>), (<<"b">>)>>,
     <<(<<>>), (<<"b">>), (<<"a">>)>>,
     <<(<<"a">>), (<<LoneSurrogate>>)>>}

\* batch_search_words(words, dict_type, return_cached_json) up to its first
\* suspension
BatchBegin(words, dict_type, return_cached_json) ==
    /\ bt.pc = "idle"
    /\ LET run0 == [BtIdle EXCEPT !.words = words, !.dict_type = dict_type,
                                  !.return_cached_json = return_cached_json,
                                  !.pre = Pre]
       IN
       IF words = <<>>
       THEN /\ bt' = [run0 EXCEPT
                        !.pc = "done",
                        !.resp = dumps_json(
                            [success |-> FALSE, error |-> <<"empty_list", 0>>,
                             error_type |-> "validation",
                             details |-> <<"empty_list", 0>>,
                             dict_type |-> dict_type])]
            /\ UNCHANGED <<cache, access_times, bucket>>
       ELSE IF BatchTooLong(words)
       THEN /\ bt' = [run0 EXCEPT
                        !.pc = "done",
                        !.resp = dumps_json(
                            [success |-> FALSE, error |-> <<"too_many", 0>>,
                             error_type |-> "validation",
                             details |-> <<"too_many", Len(words)>>,
                             dict_type |-> dict_type])]
            /\ UNCHANGED <<cache, access_times, bucket>>
       ELSE LET st == Stage1([c |-> TheCache,
                              results |-> [i \in 1..Len(words) |-> EmptyDict],
                              miss |-> <<>>, exc |-> "none"],
                             1, words, dict_type, return_cached_json, now)
                run1 == [run0 EXCEPT !.stage1 = st.results, !.miss = st.miss]
            IN
            IF st.exc # "none"
            THEN /\ bt' = [run1 EXCEPT !.pc = "raised", !.exc = st.exc]
                 /\ cache' = st.c.cache
                 /\ access_times' = st.c.access_times
                 /\ UNCHANGED bucket
            ELSE IF st.miss = <<>>
            THEN /\ bt' = BatchDone(run1, st.results, now)
                 /\ cache' = st.c.cache
                 /\ access_times' = st.c.access_times
                 /\ UNCHANGED bucket
            ELSE LET rl == _check_rate_limit(bucket, Len(st.miss), now) IN
                 /\ bucket' = rl.b
                 /\ IF rl.remaining # -1
                    THEN /\ bt' = BatchDone(run1,
                                            RateLimitFill(st.results, st.miss,
                                                          dict_type,
                                                          rl.remaining),
                                            now)
                         /\ cache' = st.c.cache
                         /\ access_times' = st.c.access_times
                    ELSE LET run2 ==
                                 [run1 EXCEPT
                                    !.pc = "fetching",
                                    !.results = st.results,
                                    !.tasks =
                                        [k \in 1..Len(st.miss) |->
                                            [word |-> st.miss[k].word,
                                             f |-> NewFetch,
                                             item |-> EmptyDict,
                                             done |-> FALSE]]]
                             rc == StartTasks([run |-> run2, c |-> st.c], 1,
                                              now)
                         IN  /\ bt' = Gathered(rc.run, now)
                             /\ cache' = rc.c.cache
                             /\ access_times' = rc.c.access_times
    /\ UNCHANGED <<now, sw, co, lim, fn>>

\* batch_search_words called while no other call is in progress
BatchStart(words, dict_type, return_cached_json) ==
    NoRun /\ BatchBegin(words, dict_type, return_cached_json)

\* a fetch that waited for the semaphore enters it
TaskCall(k) ==
    /\ bt.pc = "fetching"
    /\ k \in 1..Len(bt.tasks)
    /\ bt.tasks[k].f.pc = "ready"
    /\ Inflight(bt) < BATCH_CONCURRENCY
    /\ LET rc == TaskEnter([run |-> bt, c |-> TheCache], k, now)
       IN  /\ bt' = Gathered(rc.run, now)
           /\ cache' = rc.c.cache
           /\ access_times' = rc.c.access_times
    /\ UNCHANGED <<now, bucket, sw, co, lim, fn>>

\* the upstream answers the request of a fetch
TaskAnswer(k, answer) ==
    /\ bt.pc = "fetching"
    /\ k \in 1..Len(bt.tasks)
    /\ bt.tasks[k].f.pc = "inflight"
    /\ LET rc == TaskRun([run |-> bt, c |-> TheCache], k,
                         FetchAnswer(bt.tasks[k].f, answer), now)
       IN  /\ bt' = Gathered(rc.run, now)
           /\ cache' = rc.c.cache
           /\ access_times' = rc.c.access_times
    /\ UNCHANGED <<now, bucket, sw, co, lim, fn>>

\* the backoff sleep of a fetch ends: the retry token, then the semaphore
TaskWake(k) ==
    /\ bt.pc = "fetching"
    /\ k \in 1..Len(bt.tasks)
    /\ bt.tasks[k].f.pc = "sleeping"
    /\ LET w == FetchWake(bt.tasks[k].f, bucket, now)
           woken == TaskRun([run |-> bt, c |-> TheCache], k, w.f, now)
           rc == IF w.f.pc = "ready" THEN TaskEnter(woken, k, now) ELSE woken
       IN  /\ bt' = Gathered(rc.run, now)
           /\ bucket' = w.b
           /\ cache' = rc.c.cache
           /\ access_times' = rc.c.access_times
    /\ UNCHANGED <<now, sw, co, lim, fn>>

\* the caller has the response, or the exception, of batch_search_words
BtReturn ==
    /\ bt.pc \in {"done", "raised"}
    /\ bt' = BtIdle
    /\ UNCHANGED <<now, cache, access_times, bucket, sw, co, lim, fn>>

\* batches of every shape, against an upstream without retryable failures
Next ==
    \/ Tick
    \/ BtReturn
    \/ \E words \in BatchInputs, call \in BatchCalls :
           BatchStart(words, call[1], call[2])
    \/ \E k \in 1..MaxWords : TaskCall(k)
    \/ \E k \in 1..MaxWords, answer \in PlainAnswers : TaskAnswer(k, answer)

Spec == Init /\ [][Next]_vars

\* batches with duplicates, hits and invalid words, against an upstream
\* that also fails retryably
NextRetry ==
    \/ Tick
    \/ BtReturn
    \/ \E words \in RetryBatchInputs, return_cached_json \in BOOLEAN :
           BatchStart(words, "ko-zh", return_cached_json)
    \/ \E k \in 1..2 : TaskCall(k)
    \/ \E k \in 1..2, answer \in RetryAnswers : TaskAnswer(k, answer)
    \/ \E k \in 1..2 : TaskWake(k)

SpecRetry == Init /\ [][NextRetry]_vars

(***************************************************************************)
(* One search_word call and one batch_search_words call on the same event  *)
(* loop: each runs from one await to the next, in any order, and the clock *)
(* stands still.  Neither response is handed over, so that sw and bt keep  *)
(* what the calls obtained from the bucket.                                *)
(***************************************************************************)
ConcWords == {<<"a">>, <<"c">>}

\* the calls of search_word: the two words, a dict_type outside
\* DICT_CODE_MAP and a word of whitespace
ConcCalls ==
    (ConcWords \X {"ko-zh"}) \cup {<<(<<"a">>), "xx">>, <<(<<" ">>), "ko-zh">>}

ConcBatchInputs ==
    {<<(<<"a">>)>>, <<(<<"a">>), (<<"b">>)>>, <<(<<" ">>)>>,
     <<(<<" ">>), (<<"b">>)>>}

\* the calls of batch_search_words: the lists, and one word with a
\* dict_type outside DICT_CODE_MAP
ConcBatchCalls ==
    (ConcBatchInputs \X {"ko-zh"}) \cup {<<(<<(<<"a">>)>>), "xx">>}

ConcAnswers ==
    {a \in UpstreamAnswers : a.kind = "http" => a.status \in {404, 503}}

NextConc ==
    \/ \E call \in ConcCalls : SwBegin(call[1], call[2])
    \/ \E answer \in ConcAnswers : SwAnswer(answer)
    \/ SwWake
    \/ \E call \in ConcBatchCalls : BatchBegin(call[1], call[2], FALSE)
    \/ \E k \in 1..MaxWords : TaskCall(k)
    \/ \E k \in 1..MaxWords, answer \in ConcAnswers : TaskAnswer(k, answer)
    \/ \E k \in 1..MaxWords : TaskWake(k)

SpecConc == Init /\ [][NextConc]_vars

(***************************************************************************)
(* TTLCache called directly, as its unit tests call it: an instance of     *)
(* UnitMaxSize entries whose get, set and clear are called in any order    *)
(* while time passes.                                                      *)
(***************************************************************************)
UnitMaxSize == CACHE_MAX_SIZE + 1

UnitCache ==
    [cache |-> cache, access_times |-> access_times,
     max_size |-> UnitMaxSize]

\* the (word, dict_type) pairs, the values and the ttl arguments of the calls
UnitKeys == {<<<<"a">>, "ko-zh">>, <<<<"a">>, "ko-en">>, <<<<"b">>, "ko-zh">>}
UnitValues == {"x", "y"}
UnitTtls == {CACHE_NEGATIVE_TTL, CACHE_TTL}

\* the record of a call made now
Call(op, word, dict_type, value, ttl, hit, got) ==
    [op |-> op, key |-> <<word, dict_type>>, value |-> value, ttl |-> ttl,
     t |-> now, hit |-> hit, got |-> got,
     had |-> _make_key(word, dict_type) \in DOMAIN cache,
     full |-> CacheSize(UnitCache) >= UnitMaxSize,
     first |-> access_times # <<>>
               /\ access_times[1][1] = _make_key(word, dict_type),
     older |-> \E i \in 1..Len(access_times) :
                  /\ access_times[i][1] # _make_key(word, dict_type)
                  /\ access_times[i][2] < now,
     prev |-> [m \in PrevFields |-> co[m]]]

\* cache.set(word, dict_type, value, ttl=ttl)
UnitSet(word, dict_type, value, ttl) ==
    /\ NoRun
    /\ LET c == CacheSet(UnitCache, word, dict_type, value, ttl, now) IN
           /\ cache' = c.cache
           /\ access_times' = c.access_times
    /\ co' = Call("set", word, dict_type, value, ttl, FALSE, "")
    /\ UNCHANGED <<now, bucket, sw, bt, lim, fn>>

\* cache.get(word, dict_type)
UnitGet(word, dict_type) ==
    /\ NoRun
    /\ LET r == CacheGet(UnitCache, word, dict_type, now) IN
           /\ cache' = r.c.cache
           /\ access_times' = r.c.access_times
           /\ co' = Call("get", word, dict_type, "", 0, r.hit,
                         IF r.hit THEN r.value ELSE "")
    /\ UNCHANGED <<now, bucket, sw, bt, lim, fn>>

\* cache.clear()
UnitClear ==
    /\ NoRun
    /\ LET c == CacheClear(UnitCache) IN
           /\ cache' = c.cache
           /\ access_times' = c.access_times
    /\ co' = [Call("clear", <<>>, "", "", 0, FALSE, "") EXCEPT
                  !.key = <<>>, !.had = FALSE, !.first = FALSE,
                  !.older = FALSE]
    /\ UNCHANGED <<now, bucket, sw, bt, lim, fn>>

NextCache ==
    \/ Tick
    \/ \E k \in UnitKeys, value \in UnitValues, ttl \in UnitTtls :
           UnitSet(k[1], k[2], value, ttl)
    \/ \E k \in UnitKeys : UnitGet(k[1], k[2])
    \/ UnitClear

SpecCache == Init /\ [][NextCache]_vars

(***************************************************************************)
(* rate_limiter.py: RateLimiter, called directly as its unit tests call    *)
(* it.  bs is RateLimiter.buckets; time is in whole seconds and int() of   *)
(* the refill is the integer part of time_passed * requests_per_minute/60. *)
(***************************************************************************)
Clients == {"c1", "c2"}

\* self.buckets[client_id]: the defaultdict creates a full bucket
BucketOf(bs, client_id, t) ==
    IF client_id \in DOMAIN bs THEN bs[client_id]
    ELSE [last_check |-> t, tokens |-> REQUESTS_PER_MINUTE]

\* a variant that never refills
NewTokensWithoutRefill(b, t) == Min(REQUESTS_PER_MINUTE, b.tokens)

\* a variant without the cap
NewTokensUncapped(b, t) ==
    b.tokens + ((t - b.last_check) * REQUESTS_PER_MINUTE)
                   \div SECONDS_PER_MINUTE

\* min(requests_per_minute, tokens + int(time_passed * refill_rate))
NewTokens(b, t) ==
    Min(REQUESTS_PER_MINUTE,
        b.tokens + ((t - b.last_check) * REQUESTS_PER_MINUTE)
                       \div SECONDS_PER_MINUTE)

\* a variant that still allows a request when no token is left
IsAllowedAtZero(bs, client_id, t) ==
    LET new_tokens == NewTokens(BucketOf(bs, client_id, t), t) IN
    IF new_tokens >= 0
    THEN [buckets |-> MapPut(bs, client_id,
                             [last_check |-> t,
                              tokens |-> IF new_tokens = 0 THEN 0
                                         ELSE new_tokens - 1]),
          ok |-> TRUE]
    ELSE [buckets |-> MapPut(bs, client_id, [last_check |-> t,
                                             tokens |-> 0]),
          ok |-> FALSE]

\* RateLimiter.is_allowed
is_allowed(bs, client_id, t) ==
    LET new_tokens == NewTokens(BucketOf(bs, client_id, t), t) IN
    IF new_tokens > 0
    THEN [buckets |-> MapPut(bs, client_id, [last_check |-> t,
                                             tokens |-> new_tokens - 1]),
          ok |-> TRUE]
    ELSE [buckets |-> MapPut(bs, client_id, [last_check |-> t,
                                             tokens |-> 0]),
          ok |-> FALSE]

\* RateLimiter.get_remaining_tokens
remaining_tokens(bs, client_id, t) ==
    IF client_id \notin DOMAIN bs THEN REQUESTS_PER_MINUTE
    ELSE NewTokens(bs[client_id], t)

\* RateLimiter.reset_client
reset_client(bs, client_id) == MapDel(bs, client_id)

\* RateLimiter.clear_all
clear_all(bs) == [c \in {} |-> TRUE]

\* the record of a call made now
LimiterCall(op, client_id, ok, remaining) ==
    LET b == BucketOf(lim.buckets, client_id, now) IN
    [op |-> op, client_id |-> client_id, ok |-> ok, remaining |-> remaining,
     t |-> now, had |-> client_id \in DOMAIN lim.buckets,
     tokens |-> b.tokens, last_check |-> b.last_check,
     granted_at |-> IF client_id \in DOMAIN lim.track
                    THEN lim.track[client_id].granted_at ELSE now]

\* rate_limiter.is_allowed(client_id)
IsAllowed(client_id) ==
    /\ NoRun
    /\ LET r == is_allowed(lim.buckets, client_id, now)
           old == IF client_id \in DOMAIN lim.track THEN lim.track[client_id]
                  ELSE [born |-> now, allowed |-> 0, denied |-> FALSE,
                        granted_at |-> now]
       IN  lim' = [buckets |-> r.buckets,
                   track |-> MapPut(lim.track, client_id,
                       [born |-> old.born,
                        allowed |-> old.allowed + (IF r.ok THEN 1 ELSE 0),
                        denied |-> old.denied \/ ~r.ok,
                        granted_at |-> IF r.ok THEN now
                                       ELSE old.granted_at]),
                   last |-> LimiterCall("is_allowed", client_id, r.ok, 0)]
    /\ UNCHANGED <<now, cache, access_times, bucket, sw, bt, co, fn>>

\* rate_limiter.get_remaining_tokens(client_id)
GetRemainingTokens(client_id) ==
    /\ NoRun
    /\ lim' = [lim EXCEPT !.last =
                  LimiterCall("get_remaining_tokens", client_id, FALSE,
                      remaining_tokens(lim.buckets, client_id, now))]
    /\ UNCHANGED <<now, cache, access_times, bucket, sw, bt, co, fn>>

\* rate_limiter.reset_client(client_id)
ResetClient(client_id) ==
    /\ NoRun
    /\ lim' = [buckets |-> reset_client(lim.buckets, client_id),
               track |-> MapDel(lim.track, client_id),
               last |-> LimiterCall("reset_client", client_id, FALSE, 0)]
    /\ UNCHANGED <<now, cache, access_times, bucket, sw, bt, co, fn>>

\* rate_limiter.clear_all()
ClearAll ==
    /\ NoRun
    /\ lim' = [buckets |-> clear_all(lim.buckets),
               track |-> [c \in {} |-> TRUE],
               last |-> [NoLimiterCall EXCEPT !.op = "clear_all", !.t = now]]
    /\ UNCHANGED <<now, cache, access_times, bucket, sw, bt, co, fn>>

NextLimiter ==
    \/ Tick
    \/ \E client_id \in Clients : IsAllowed(client_id)
    \/ \E client_id \in Clients : GetRemainingTokens(client_id)
    \/ \E client_id \in Clients : ResetClient(client_id)
    \/ ClearAll

SpecLimiter == Init /\ [][NextLimiter]_vars

(***************************************************************************)
(* Callers that poll is_allowed at intervals shorter than the time one     *)
(* token takes to refill.                                                  *)
(***************************************************************************)
PollStep == 20

TickPoll ==
    /\ NoRun
    /\ now + PollStep <= MaxTime
    /\ now' = now + PollStep
    /\ UNCHANGED <<cache, access_times, bucket, sw, bt, co, lim, fn>>

NextPoll ==
    \/ TickPoll
    \/ \E client_id \in Clients : IsAllowed(client_id)
    \/ \E client_id \in Clients : GetRemainingTokens(client_id)

SpecPoll == Init /\ [][NextPoll]_vars

(***************************************************************************)
(* _normalize_word called directly, on every str of up to NormMaxLen       *)
(* characters of a space, a base letter and a combining mark, on None, on  *)
(* a str over the length bound and on one with a lone surrogate; then      *)
(* called again on what it returned.                                       *)
(***************************************************************************)
NormMaxLen == 4

NormAlphabet == {" ", "a", "~"}

NormInputs ==
    SeqsUpTo(NormAlphabet, NormMaxLen)
        \cup {None, LongWord, <<LoneSurrogate>>, Append(LongWord, " ")}

\* _normalize_word(word)
NormalizeCall(word) ==
    /\ NoRun
    /\ fn' = [op |-> "_normalize_word", word |-> word, calls |-> 1,
              first |-> _normalize_word(word), second |-> NormErr("", 0)]
    /\ UNCHANGED <<now, cache, access_times, bucket, sw, bt, co, lim>>

\* _normalize_word(_normalize_word(word))
NormalizeAgain ==
    /\ fn.op = "_normalize_word"
    /\ fn.calls = 1
    /\ fn.first.ok
    /\ fn' = [fn EXCEPT !.calls = 2,
                        !.second = _normalize_word(fn.first.word)]
    /\ UNCHANGED <<now, cache, access_times, bucket, sw, bt, co, lim>>

NextNormalize ==
    \/ \E word \in NormInputs : NormalizeCall(word)
    \/ NormalizeAgain

SpecNormalize == Init /\ [][NextNormalize]_vars

(***************************************************************************)
(* The delay the retry orchestrator computes after a retryable failure:    *)
(* retry_index is the attempt that failed, status_code the status of the   *)
(* failure (0 for a timeout or a connection failure), retry_after what     *)
(* _parse_retry_after_seconds made of the Retry-After header.              *)
(***************************************************************************)
MaxRetryIndex == 3

BaseDelays == {0, 10, 20}
MaxDelays == {10, 30, 40}
RetryAfters == {<<>>, <<10>>, <<20>>, <<50>>}
BackoffStatuses == {0, 429, 503}

\* the function keeps no state: one call on every argument
BackoffCall(status_code, retry_index, base_delay, max_delay, retry_after) ==
    /\ NoRun
    /\ fn = NoFn
    /\ \E delay \in _compute_backoff_delay(
                        retry_index, base_delay, max_delay,
                        RetryAfterArgument(status_code, retry_after)) :
           fn' = [op |-> "_compute_backoff_delay",
                  status_code |-> status_code, retry_index |-> retry_index,
                  base_delay |-> base_delay, max_delay |-> max_delay,
                  retry_after |-> retry_after, delay |-> delay]
    /\ UNCHANGED <<now, cache, access_times, bucket, sw, bt, co, lim>>

NextBackoff ==
    \E status_code \in BackoffStatuses, retry_index \in 1..MaxRetryIndex,
       base_delay \in BaseDelays, max_delay \in MaxDelays,
       retry_after \in RetryAfters :
        BackoffCall(status_code, retry_index, base_delay, max_delay,
                    retry_after)

SpecBackoff == Init /\ [][NextBackoff]_vars

(***************************************************************************)
(* Properties of batch_search_words.  They compare the response of a       *)
(* finished call with the input and with the state the call found.         *)
(***************************************************************************)
\* a finished call whose list passed the input validation
BtAnswered ==
    bt.pc = "done" /\ bt.words # <<>> /\ Len(bt.words) <= MAX_BATCH_WORDS

BtPayload == json_loads(bt.resp)

\* the call found a live entry for (w, dict_type)
FoundFresh(pre, w, dict_type) ==
    /\ <<w, dict_type>> \in DOMAIN pre.cache
    /\ pre.now < pre.cache[<<w, dict_type>>].expires_at

\* the positions whose word normalizes and has no live entry, and their
\* distinct normalized words
MissPositions ==
    {i \in 1..Len(bt.words) :
        /\ _normalize_word(bt.words[i]).ok
        /\ ~FoundFresh(bt.pre, _normalize_word(bt.words[i]).word,
                       bt.dict_type)}

MissWordSet == {_normalize_word(bt.words[i]).word : i \in MissPositions}

\* the tokens (in 60ths) the bucket holds for the charge of the call
TokensAtStart == Refill(bt.pre.bucket, bt.pre.now).tokens60

ChargeGranted ==
    /\ MissWordSet # {}
    /\ TokensAtStart >= SECONDS_PER_MINUTE * Cardinality(MissWordSet)

ChargeDenied ==
    /\ MissWordSet # {}
    /\ TokensAtStart < SECONDS_PER_MINUTE * Cardinality(MissWordSet)

\* what an item says happened: the entry count, or the error
Outcome(item) ==
    IF IsSuccess(item) THEN <<"ok", item.count>>
    ELSE <<item.error_type, item.details>>

\* what the orchestrator of a fetch ended with
FetchOutcome(f) ==
    IF f.pc = "returned" THEN <<"ok", f.data.n>>
    ELSE LET e == ErrorItemForExc(f.exc, <<>>, "", FALSE)
         IN  <<e.error_type, e.details>>

\* C1: the result list of a batch has one item per input position, and
\* item i is the outcome of input word i (a validation error for a word that
\* does not normalize, a cached item for a hit, the outcome of the fetch of
\* its normalized word for a miss), whatever the order in which the fetches
\* finished.
C1_ItemsFollowInputOrder ==
    BtAnswered =>
        /\ Len(bt.results) = Len(bt.words)
        /\ BtPayload.results = bt.results
        /\ \A i \in 1..Len(bt.words) :
               LET nz == _normalize_word(bt.words[i])
                   item == bt.results[i]
               IN  IF ~nz.ok
                   THEN /\ item.word = OrEmpty(bt.words[i])
                        /\ item.error_type = "validation"
                   ELSE /\ item.word = nz.word
                        /\ i \notin MissPositions => item.from_cache
                        /\ (i \in MissPositions /\ ChargeGranted) =>
                               \E k \in 1..Len(bt.tasks) :
                                   /\ bt.tasks[k].word = nz.word
                                   /\ Outcome(item)
                                          = FetchOutcome(bt.tasks[k].f)

\* two fetches finished in the reverse of the input order, one with a
\* success and one with an error
C1_Witness ==
    /\ BtAnswered
    /\ bt.completion = <<2, 1>>
    /\ IsSuccess(bt.tasks[1].item) # IsSuccess(bt.tasks[2].item)

\* no fetch of the call went into a second attempt
NoRetry == \A k \in 1..Len(bt.tasks) : bt.tasks[k].f.attempt = 1

\* C2: in a batch whose charge is granted and in which no retry occurs,
\* client.search is called exactly once for each distinct normalized miss
\* word, and for no other word (no cache hit, no word that failed
\* normalization).
C2_OneCallPerMissWord ==
    (BtAnswered /\ ChargeGranted /\ NoRetry) =>
        /\ Len(bt.tasks) = Cardinality(MissWordSet)
        /\ {bt.tasks[k].word : k \in 1..Len(bt.tasks)} = MissWordSet
        /\ \A k \in 1..Len(bt.tasks) : bt.tasks[k].f.calls = 1

\* three positions, two of them sharing a miss word, two fetches, no retry
C2_Witness ==
    /\ BtAnswered /\ ChargeGranted /\ NoRetry
    /\ Len(bt.words) = 3
    /\ MissPositions = {1, 2, 3}
    /\ Cardinality(MissWordSet) = 2

\* C3: the charge of a batch is one token for each distinct normalized miss
\* word, however many positions share the word: with no miss word the bucket
\* is not touched; otherwise the bucket is asked for that many tokens, the
\* fetches are started exactly when it holds them, and it loses exactly
\* them (no token when the charge is denied).
C3_ChargeIsDistinctMissWords ==
    (bt.pc # "idle" /\ bt.words # <<>> /\ Len(bt.words) <= MAX_BATCH_WORDS) =>
        IF MissWordSet = {}
        THEN bucket = bt.pre.bucket
        ELSE /\ (bt.tasks # <<>>) = ChargeGranted
             /\ bucket.tokens60 =
                    IF ChargeGranted
                    THEN TokensAtStart
                             - SECONDS_PER_MINUTE * Cardinality(MissWordSet)
                    ELSE TokensAtStart

\* two positions share the one miss word of a granted batch
C3_Witness ==
    /\ BtAnswered /\ ChargeGranted
    /\ MissPositions = {1, 2}
    /\ Cardinality(MissWordSet) = 1
    /\ bucket.tokens60 = TokensAtStart - SECONDS_PER_MINUTE

\* the positions of the miss word w, and the first of them
GroupOf(w) == {i \in MissPositions : _normalize_word(bt.words[i]).word = w}

FirstOf(w) == CHOOSE i \in GroupOf(w) : \A j \in GroupOf(w) : i <= j

Unmarked(item) == [item EXCEPT !.deduped = FALSE]

\* C4: among the positions of a batch that share a normalized miss word, the
\* first has deduped = false and every later one deduped = true, all have
\* the shared word as source_word, and all carry the same success or error
\* outcome.
C4_DedupMarks ==
    BtAnswered =>
        \A w \in MissWordSet :
            \A i \in GroupOf(w) :
                /\ bt.results[i].deduped = (i # FirstOf(w))
                /\ bt.results[i].source_word = w
                /\ Unmarked(bt.results[i]) = Unmarked(bt.results[FirstOf(w)])

\* a fetched word at two positions
C4_Witness ==
    /\ BtAnswered /\ ChargeGranted
    /\ \E w \in MissWordSet :
           /\ GroupOf(w) = {1, 2}
           /\ bt.words[1] # bt.words[2]
           /\ IsSuccess(bt.results[2])
           /\ bt.results[2].deduped

\* C5: when the charge of a batch is denied, every position of a miss word
\* gets a rate_limit error carrying the remaining quota, no fetch is started
\* and the items of the cache hits and of the validation failures stay as
\* the first loop produced them.
C5_DeniedChargeOnlyMarksMisses ==
    (BtAnswered /\ ChargeDenied) =>
        /\ bt.tasks = <<>>
        /\ \A i \in 1..Len(bt.words) :
               IF i \in MissPositions
               THEN /\ ~IsSuccess(bt.results[i])
                    /\ bt.results[i].error_type = "rate_limit"
                    /\ bt.results[i].details
                           = <<"remaining",
                               TokensAtStart \div SECONDS_PER_MINUTE>>
               ELSE /\ bt.results[i] = bt.stage1[i]
                    /\ IF _normalize_word(bt.words[i]).ok
                       THEN bt.results[i].from_cache
                       ELSE bt.results[i].error_type = "validation"

\* a denied batch with a miss next to a cache hit
C5_Witness ==
    /\ BtAnswered /\ ChargeDenied
    /\ Len(bt.words) = 2
    /\ Cardinality(MissPositions) = 1
    /\ \E i \in 1..2 : i \notin MissPositions /\ bt.results[i].from_cache

\* C6: the payload of a batch that passed the input validation: count is the
\* number of input words, success_count + fail_count = count, success holds
\* exactly when every item succeeded and partial_success exactly when some
\* but not all did.
C6_PayloadAggregates ==
    BtAnswered =>
        LET p == BtPayload
            ok == {i \in 1..Len(p.results) : IsSuccess(p.results[i])}
        IN  /\ p.count = Len(bt.words)
            /\ Len(p.results) = Len(bt.words)
            /\ p.success_count = Cardinality(ok)
            /\ p.success_count + p.fail_count = p.count
            /\ p.success = (Cardinality(ok) = Len(bt.words))
            /\ p.partial_success
                   = (ok # {} /\ Cardinality(ok) < Len(bt.words))

\* a batch with one success and one failure
C6_Witness ==
    /\ BtAnswered
    /\ BtPayload.partial_success
    /\ BtPayload.success_count = 1
    /\ BtPayload.fail_count = 1

\* C7: a batch with an empty list or with more than 10 words is answered
\* with one top-level validation error without per-item results, and leaves
\* the cache, the access times and the bucket as it found them; no fetch is
\* started.
C7_BadListTouchesNothing ==
    (bt.pc = "done" /\ (bt.words = <<>> \/ Len(bt.words) > MAX_BATCH_WORDS)) =>
        /\ "results" \notin DOMAIN BtPayload
        /\ BtPayload.success = FALSE
        /\ "error_type" \in DOMAIN BtPayload
        /\ BtPayload.error_type = "validation"
        /\ bt.results = <<>>
        /\ bt.tasks = <<>>
        /\ cache = bt.pre.cache
        /\ access_times = bt.pre.access_times
        /\ bucket = bt.pre.bucket

\* eleven words, all of them with an entry that a cache read would delete
C7_Witness ==
    /\ bt.pc = "done"
    /\ Len(bt.words) = MAX_BATCH_WORDS + 1
    /\ \E key \in DOMAIN cache :
           /\ key[1] = bt.words[1]
           /\ cache[key].expires_at <= now

(***************************************************************************)
(* Properties of search_word.                                              *)
(***************************************************************************)
SwPayload == json_loads(sw.resp)

\* the input is missing, empty, nothing but whitespace, or longer than 100
\* characters once stripped and composed
InvalidWord(word) ==
    \/ word = None
    \/ \A i \in 1..Len(word) : word[i] \in Whitespace
    \/ Len(NFC(Strip(word))) > MAX_WORD_LEN

\* the tokens (in 60ths) the bucket holds for the charge of the call
SwTokensAtStart == Refill(sw.pre.bucket, sw.pre.now).tokens60

\* C8: a search_word call whose word fails normalization (missing, empty,
\* whitespace only, longer than 100 characters) returns a validation error
\* and leaves the cache, the access times and the bucket as it found them;
\* client.search is not called.
C8_InvalidWordTouchesNothing ==
    (sw.pc = "done" /\ InvalidWord(sw.word)) =>
        /\ SwPayload.success = FALSE
        /\ SwPayload.error_type = "validation"
        /\ sw.f.calls = 0
        /\ cache = sw.pre.cache
        /\ access_times = sw.pre.access_times
        /\ bucket = sw.pre.bucket

\* a whitespace-only word, with an expired entry in the cache and a bucket
\* that a charge would refill
C8_Witness ==
    /\ sw.pc = "done"
    /\ sw.word = <<" ">>
    /\ \E key \in DOMAIN cache : cache[key].expires_at <= now
    /\ bucket.last_refill < now

\* C9: a search_word call whose cache lookup misses (the key can be built
\* and has no live entry) and that is denied its one token
\* returns a rate_limit error carrying the remaining quota, does not call
\* client.search and adds or changes no cache entry.
C9_DeniedTokenNoUpstreamNoWrite ==
    (/\ sw.pc = "done"
     /\ ~InvalidWord(sw.word)
     /\ Encodable(sw.word)
     /\ ~FoundFresh(sw.pre, NFC(Strip(sw.word)), sw.dict_type)
     /\ SwTokensAtStart < SECONDS_PER_MINUTE) =>
        /\ SwPayload.success = FALSE
        /\ SwPayload.error_type = "rate_limit"
        /\ SwPayload.details
               = <<"remaining", SwTokensAtStart \div SECONDS_PER_MINUTE>>
        /\ sw.f.calls = 0
        /\ \A key \in DOMAIN cache :
               key \in DOMAIN sw.pre.cache /\ cache[key] = sw.pre.cache[key]

\* a denied call, with another word in the cache
C9_Witness ==
    /\ sw.pc = "done"
    /\ SwPayload.success = FALSE
    /\ SwPayload.error_type = "rate_limit"
    /\ cache # EmptyDict

\* C10: a search_word call whose input normalizes to a word and variant for
\* which an earlier successful call left an entry that is neither expired
\* nor evicted returns the stored response with from_cache = true, does not
\* call client.search and takes no token.
C10_LiveEntryIsServed ==
    (/\ sw.pc = "done"
     /\ ~InvalidWord(sw.word)
     /\ FoundFresh(sw.pre, NFC(Strip(sw.word)), sw.dict_type)) =>
        LET stored == json_loads(
                sw.pre.cache[<<NFC(Strip(sw.word)), sw.dict_type>>].value)
        IN  /\ SwPayload.success = TRUE
            /\ SwPayload.from_cache = TRUE
            /\ SwPayload.word = NFC(Strip(sw.word))
            /\ SwPayload.results = stored.results
            /\ sw.f.calls = 0
            /\ bucket = sw.pre.bucket

\* the entry of "a" serves the input " a" at a later time
C10_Witness ==
    /\ sw.pc = "done"
    /\ sw.word = <<" ", "a">>
    /\ FoundFresh(sw.pre, <<"a">>, sw.dict_type)
    /\ sw.pre.cache[<<(<<"a">>), sw.dict_type>>].expires_at
           < CACHE_TTL + sw.pre.now
    /\ SwPayload.from_cache = TRUE

(***************************************************************************)
(* Properties of the error handling.                                       *)
(***************************************************************************)
\* C11: every call of search_word and of batch_search_words ends by
\* returning a response: no call ends with an exception handed to the
\* caller, whatever fails in normalization, cache lookup, rate limiting,
\* the upstream call, the retries or the parsing.
C11_EveryCallReturns ==
    /\ sw.pc \in {"done", "raised"} =>
           sw.pc = "done" /\ "success" \in DOMAIN SwPayload
    /\ bt.pc \in {"done", "raised"} =>
           bt.pc = "done" /\ "success" \in DOMAIN BtPayload

\* search_word has answered and its retry orchestrator ended by raising
SwFetchRaised == sw.pc = "done" /\ sw.f.pc = "raised"

\* the error response of search_word, where it answered with one
SwErrorType ==
    IF "error_type" \in DOMAIN SwPayload THEN SwPayload.error_type ELSE "none"

\* C12: when the retry orchestrator finally fails with an HTTP status error
\* of the upstream, the error_type of the response is upstream_rate_limit
\* for status 429, upstream_server_error for every other status in 500..599,
\* and http_error for any other status.
C12_HttpErrorTypeFollowsStatus ==
    (SwFetchRaised /\ sw.last.kind = "http") =>
        /\ SwPayload.success = FALSE
        /\ sw.last.status = 429 => SwErrorType = "upstream_rate_limit"
        /\ (sw.last.status \in 500..599 /\ sw.last.status # 429) =>
               SwErrorType = "upstream_server_error"
        /\ sw.last.status \notin (500..599) \cup {429} =>
               SwErrorType = "http_error"

C12_Witness ==
    /\ SwFetchRaised
    /\ sw.last.kind = "http" /\ sw.last.status = 429
    /\ sw.f.calls = UPSTREAM_RETRY_MAX_ATTEMPTS
    /\ SwErrorType = "upstream_rate_limit"

\* the orchestrator stopped because the attempts are used up: every attempt
\* made its call, and every attempt but the last was followed by a sleep and
\* a retry token
FetchExhausted(f) ==
    /\ f.attempt = UPSTREAM_RETRY_MAX_ATTEMPTS
    /\ f.calls = f.attempt
    /\ f.sleeps = f.attempt - 1
    /\ f.retry_tokens = f.attempt - 1

\* the orchestrator stopped because the bucket had no token for the retry
\* that was due after the sleep
FetchTokenDenied(f) ==
    /\ f.attempt < UPSTREAM_RETRY_MAX_ATTEMPTS
    /\ f.calls = f.attempt
    /\ f.sleeps = f.attempt
    /\ f.retry_tokens = f.attempt - 1

\* C13: a timeout and a connection failure of the upstream are retried up to
\* the attempt bound (a retry needs a token of the bucket); when the
\* orchestrator gives up, the response has error_type timeout for a timeout
\* and network_error for a connection failure, and a timeout is never
\* reported as network_error.
C13_TimeoutAndNetworkRetriedThenReported ==
    (SwFetchRaised /\ sw.last.kind \in {"timeout", "network"}) =>
        /\ FetchExhausted(sw.f) \/ FetchTokenDenied(sw.f)
        /\ SwPayload.success = FALSE
        /\ sw.last.kind = "timeout" => SwErrorType = "timeout"
        /\ sw.last.kind = "network" => SwErrorType = "network_error"

C13_Witness ==
    /\ SwFetchRaised
    /\ sw.last.kind = "timeout"
    /\ FetchExhausted(sw.f)
    /\ sw.f.calls >= 2
    /\ SwErrorType = "timeout"

RetryableStatuses == {429, 500, 502, 503, 504}

\* the upstream failed once with a retryable status, and the second attempt
\* brought a body that parses
SwOneRetryableFailureThenSuccess ==
    /\ sw.pc = "done"
    /\ sw.f.pc = "returned" /\ sw.f.attempt = 2
    /\ sw.f.exc.kind = "HTTPStatusError"
    /\ sw.f.exc.status \in RetryableStatuses
    /\ sw.last.kind = "ok"

\* C14: with at least two attempts allowed and a retry token in the bucket,
\* one retryable failure (429, 500, 502, 503 or 504) followed by a success
\* makes exactly 2 upstream calls, exactly one backoff sleep and consumes
\* exactly one retry token, and the response is a success.  A retryable
\* status never ends the call while attempts and a token remain.
C14_OneRetryThenSuccess ==
    /\ SwOneRetryableFailureThenSuccess =>
           /\ sw.f.calls = 2
           /\ sw.f.sleeps = 1
           /\ sw.f.retry_tokens = 1
           /\ now = sw.pre.now => bucket.tokens60 = SwTokensAtStart - 2 * 60
           /\ SwPayload.success = TRUE
           /\ SwPayload.count = sw.last.n
    /\ (SwFetchRaised /\ sw.last.kind = "http"
           /\ sw.last.status \in RetryableStatuses) =>
           FetchExhausted(sw.f) \/ FetchTokenDenied(sw.f)

C14_Witness ==
    /\ SwOneRetryableFailureThenSuccess
    /\ sw.f.exc.status = 502
    /\ now = sw.pre.now
    /\ SwPayload.success = TRUE

\* the latest thing the upstream call of search_word did is a failure that
\* is not retryable: an HTTP status outside the retryable set, a
\* ValidationError of the client, or a body that does not parse
SwNonRetryableFailure ==
    \/ sw.last.kind = "http" /\ sw.last.status \notin RetryableStatuses
    \/ sw.last.kind \in {"bad_type", "bad_attr"}
    \/ sw.f.exc.kind = "ValidationError"

\* that failure is the first thing the upstream call did
SwFirstFailure ==
    IF sw.f.exc.kind = "ValidationError" THEN sw.answers = 0
    ELSE sw.answers = 1

\* C15: a failure that is not retryable (an HTTP status outside the
\* retryable set, a validation error, a parse error) propagates at once:
\* exactly 1 upstream call, no sleep, no retry token, whatever the attempt
\* bound is, and the response is an error.  No such failure is ever
\* followed by a sleep.
C15_NonRetryablePropagatesAtOnce ==
    /\ (sw.pc = "done" /\ SwNonRetryableFailure /\ SwFirstFailure) =>
           /\ sw.f.calls = 1
           /\ sw.f.sleeps = 0
           /\ sw.f.retry_tokens = 0
           /\ now = sw.pre.now => bucket.tokens60 = SwTokensAtStart - 60
           /\ SwPayload.success = FALSE
    /\ (sw.pc = "done" /\ SwNonRetryableFailure) =>
           /\ sw.f.calls = sw.f.sleeps + 1
           /\ sw.f.retry_tokens = sw.f.sleeps
    /\ sw.pc = "sleeping" =>
           \/ sw.last.kind \in {"timeout", "network"}
           \/ sw.last.kind = "http" /\ sw.last.status \in RetryableStatuses

C15_Witness ==
    /\ sw.pc = "done"
    /\ sw.last.kind = "http" /\ sw.last.status = 404
    /\ SwFirstFailure
    /\ UPSTREAM_RETRY_MAX_ATTEMPTS >= 2
    /\ SwErrorType = "http_error"

\* the error_type and the details of the error response for a failed answer
AnswerOutcome(answer) ==
    IF answer.kind = "timeout" THEN <<"timeout", <<"timeout", HTTP_TIMEOUT>>>>
    ELSE IF answer.kind = "network"
    THEN <<"network_error", <<"network", 0>>>>
    ELSE <<IF answer.status = 429 THEN "upstream_rate_limit"
           ELSE IF answer.status \in 500..599 THEN "upstream_server_error"
           ELSE "http_error",
           <<"http", answer.status>>>>

\* C16: every run of the retry orchestrator ends, returned or raised, after
\* at most max_attempts upstream calls: it never makes more calls, and the
\* answer to the last allowed call ends it.  When every attempt failed with
\* a retryable failure, the error raised is the one of the last attempt.
C16_AtMostMaxAttemptsLastErrorRaised ==
    /\ sw.f.calls <= UPSTREAM_RETRY_MAX_ATTEMPTS
    /\ sw.f.attempt <= UPSTREAM_RETRY_MAX_ATTEMPTS
    /\ sw.f.calls <= sw.f.attempt
    /\ sw.answers = UPSTREAM_RETRY_MAX_ATTEMPTS =>
           sw.f.pc \in {"returned", "raised"} /\ sw.pc = "done"
    /\ (SwFetchRaised /\ sw.answers = UPSTREAM_RETRY_MAX_ATTEMPTS) =>
           /\ FetchExhausted(sw.f)
           /\ SwPayload.success = FALSE
           /\ Outcome(SwPayload) = AnswerOutcome(sw.last)

C16_Witness ==
    /\ SwFetchRaised
    /\ sw.answers = UPSTREAM_RETRY_MAX_ATTEMPTS
    /\ sw.f.calls >= 2
    /\ sw.f.exc.kind = "RequestError"
    /\ SwErrorType = "network_error"

(***************************************************************************)
(* TTLCache.  In a step of a call, co is the call before it and co' the    *)
(* call made; cache and access_times are what the call found.              *)
(***************************************************************************)
CallStep(op) == co' # co /\ co'.op = op

\* access_times[key]
AtTime(at, key) == at[AtIndex(at, key)][2]

Evicted == (DOMAIN cache) \ (DOMAIN cache')

\* a set of a key that is not in the full cache, right after a read that
\* found the key inserted first
InsertAfterRereadOfFirst ==
    /\ CallStep("set")
    /\ UnitMaxSize >= 2
    /\ CacheSize(UnitCache) = UnitMaxSize
    /\ co'.key \notin DOMAIN cache
    /\ co.op = "get" /\ co.hit /\ co.key = access_times[1][1]

EvictsOneLeastRecentNotReread ==
    /\ Cardinality(Evicted) = 1
    /\ \A e \in Evicted : \A k \in DOMAIN cache :
           AtTime(access_times, e) <= AtTime(access_times, k)
    /\ co.key \notin Evicted

\* C17 as stated: with a cache of capacity N >= 2 filled with N distinct
\* keys, if the key inserted first is read again before an (N+1)th key is
\* inserted, the insertion evicts exactly one entry, the least recently
\* accessed one, and not the key read again.
C17_RereadKeySurvives ==
    [][InsertAfterRereadOfFirst => EvictsOneLeastRecentNotReread]_vars

\* C17, amended: the same, when the read happened at a clock reading later
\* than the last access of at least one other entry; the entry evicted is
\* then one of least access time and not the key read again.
C17_RereadKeySurvivesWhenClockAdvanced ==
    [][(InsertAfterRereadOfFirst
          /\ \E k \in DOMAIN cache :
                 AtTime(access_times, k) < AtTime(access_times, co.key))
       => EvictsOneLeastRecentNotReread]_vars

C17_Witness ==
    /\ co.op = "set" /\ ~co.had /\ co.full
    /\ co.prev.op = "get" /\ co.prev.hit /\ co.prev.first /\ co.prev.older
    /\ co.prev.key \in DOMAIN cache
    /\ co.key \in DOMAIN cache
    /\ CacheSize(UnitCache) = UnitMaxSize

\* C18: set on a key that is already present overwrites that entry in place
\* and evicts nothing: every other entry stays in the cache and size() is
\* unchanged, also when the cache is at capacity.
C18_OverwriteEvictsNothing ==
    [][(CallStep("set") /\ co'.key \in DOMAIN cache) =>
          /\ DOMAIN cache' = DOMAIN cache
          /\ Cardinality(DOMAIN cache') = Cardinality(DOMAIN cache)
          /\ \A k \in (DOMAIN cache) \ {co'.key} : cache'[k] = cache[k]
          /\ cache'[co'.key].value = co'.value]_vars

\* the call before this get was the set of the same key
GetAfterSet == CallStep("get") /\ co.op = "set" /\ co.key = co'.key

Dropped(key) ==
    key \notin DOMAIN cache' /\ AtIndex(access_times', key) = 0

\* C19: get never returns a value at or after the expires_at of the entry:
\* once the time elapsed since set(w, v, x, ttl=t) is at least t, get(w, v)
\* is a miss, and that read removes the entry and its access timestamp.
C19_ExpiredEntryMissesAndIsRemoved ==
    [][CallStep("get") =>
          /\ co'.hit => /\ co'.key \in DOMAIN cache
                        /\ now < cache[co'.key].expires_at
          /\ (co'.key \in DOMAIN cache
                 /\ now >= cache[co'.key].expires_at) =>
                 ~co'.hit /\ Dropped(co'.key)
          /\ (GetAfterSet /\ now - co.t >= co.ttl) =>
                 ~co'.hit /\ Dropped(co'.key)]_vars

C19_Witness ==
    /\ co.op = "get" /\ ~co.hit /\ co.had
    /\ co.prev.op = "set" /\ co.prev.key = co.key
    /\ co.t - co.prev.t >= co.prev.ttl
    /\ co.key \notin DOMAIN cache
    /\ AtIndex(access_times, co.key) = 0

\* C20: get(w, v) right after set(w, v, x) returns x when the TTL has not
\* elapsed, for every w, v and x, and the value a get returns is the one of
\* the most recent set of that key: a set stores its value, and no call
\* changes the value stored under another key.
C20_GetReturnsLatestSet ==
    [][/\ (GetAfterSet /\ now - co.t < co.ttl) =>
              co'.hit /\ co'.got = co.value
       /\ (CallStep("get") /\ co'.hit) => co'.got = cache[co'.key].value
       /\ CallStep("set") =>
              /\ co'.key \in DOMAIN cache'
              /\ cache'[co'.key].value = co'.value
       /\ \A k \in DOMAIN cache' :
              (CallStep("set") /\ k = co'.key)
              \/ (k \in DOMAIN cache /\ cache'[k].value = cache[k].value)
      ]_vars

C20_Witness ==
    /\ co.op = "get" /\ co.hit /\ co.got = "y"
    /\ co.prev.op = "set" /\ co.prev.key = co.key
    /\ co.prev.value = "y" /\ co.prev.had
    /\ co.t > co.prev.t

\* C21: for a cache built with max_size >= 1, size() never exceeds max_size
\* after any sequence of get, set and clear, and the insertion of a key into
\* a cache that already holds max_size other keys leaves size() equal to
\* max_size.
C21_SizeNeverExceedsMaxSize ==
    /\ UnitMaxSize >= 1
    /\ CacheSize(UnitCache) <= UnitMaxSize
    /\ Len(access_times) <= UnitMaxSize
    /\ (co.op = "set" /\ co.full /\ ~co.had) =>
           CacheSize(UnitCache) = UnitMaxSize

C21_Witness ==
    /\ co.op = "set" /\ co.full /\ ~co.had
    /\ co.key \in DOMAIN cache
    /\ CacheSize(UnitCache) = UnitMaxSize
    /\ \A k \in DOMAIN cache : now < cache[k].expires_at

(***************************************************************************)
(* Properties of the cache writes of search_word.                          *)
(***************************************************************************)
SwKey == <<NFC(Strip(sw.word)), sw.dict_type>>

\* search_word answered with the response of an upstream fetch
SwFilled ==
    /\ sw.pc = "done"
    /\ IsSuccess(SwPayload)
    /\ SwPayload.from_cache = FALSE

\* the call found an entry of zero results under its key
SwFoundZeroResultEntry ==
    /\ sw.pc = "done"
    /\ ~InvalidWord(sw.word)
    /\ SwKey \in DOMAIN sw.pre.cache
    /\ json_loads(sw.pre.cache[SwKey].value).count = 0

\* C22: the success response of a run is written to the cache with the
\* short negative TTL when the parsed result list is empty and with the
\* default TTL otherwise; an entry of zero results never outlives the
\* negative TTL, is served from the cache before it expires, and a call
\* after its expiry makes a new upstream call.
C22_NegativeTtlForEmptyResults ==
    /\ SwFilled =>
           /\ SwKey \in DOMAIN cache
           /\ cache[SwKey].value = sw.resp
           /\ sw.last.n = 0 =>
                  cache[SwKey].expires_at = now + CACHE_NEGATIVE_TTL
           /\ sw.last.n > 0 => cache[SwKey].expires_at = now + CACHE_TTL
    /\ \A key \in DOMAIN cache :
           json_loads(cache[key].value).count = 0 =>
               cache[key].expires_at <= now + CACHE_NEGATIVE_TTL
    /\ (SwFoundZeroResultEntry
           /\ sw.pre.now < sw.pre.cache[SwKey].expires_at) =>
           /\ IsSuccess(SwPayload)
           /\ SwPayload.from_cache = TRUE
           /\ SwPayload.count = 0
           /\ sw.f.calls = 0
    /\ (SwFoundZeroResultEntry
           /\ sw.pre.now >= sw.pre.cache[SwKey].expires_at
           /\ SwTokensAtStart >= SECONDS_PER_MINUTE) =>
           sw.f.calls >= 1

\* an entry of zero results has expired and the word is fetched again
C22_Witness ==
    /\ SwFilled
    /\ SwFoundZeroResultEntry
    /\ sw.pre.now = sw.pre.cache[SwKey].expires_at
    /\ sw.f.calls = 1
    /\ SwPayload.count = 0
    /\ cache[SwKey].expires_at = now + CACHE_NEGATIVE_TTL

(***************************************************************************)
(* RateLimiter.                                                            *)
(***************************************************************************)
\* the tokens earned since the last check of bucket b, before the cap
Earned(b, t) ==
    ((t - b.last_check) * REQUESTS_PER_MINUTE) \div SECONDS_PER_MINUTE

\* C23: the number of tokens of a bucket stays within 0..capacity in every
\* reachable state, whatever sequence of is_allowed, get_remaining_tokens,
\* reset_client and clear_all was called and however much time passed:
\* the stored count, the count get_remaining_tokens returned, and the count
\* it would return now or later.
C23_TokensWithinCapacity ==
    /\ \A c \in DOMAIN lim.buckets :
           /\ lim.buckets[c].tokens \in 0..REQUESTS_PER_MINUTE
           /\ \A d \in 0..(2 * SECONDS_PER_MINUTE) :
                  remaining_tokens(lim.buckets, c, now + d)
                      \in 0..REQUESTS_PER_MINUTE
    /\ \A c \in Clients :
           remaining_tokens(lim.buckets, c, now) \in 0..REQUESTS_PER_MINUTE
    /\ lim.last.op = "get_remaining_tokens" =>
           lim.last.remaining \in 0..REQUESTS_PER_MINUTE

\* get_remaining_tokens answers for a bucket that earned more than it can
\* hold
C23_Witness ==
    /\ lim.last.op = "get_remaining_tokens"
    /\ lim.last.had
    /\ lim.last.t = now
    /\ lim.last.tokens + Earned(lim.last, now) > REQUESTS_PER_MINUTE
    /\ lim.last.remaining = REQUESTS_PER_MINUTE

\* C24: starting from a full bucket, with no time elapsing, exactly capacity
\* consecutive unit requests are allowed and the next one is denied: no
\* request is denied before capacity were allowed, and no more than
\* capacity are allowed.
C24_CapacityRequestsThenDenied ==
    \A c \in DOMAIN lim.track :
        lim.track[c].born = now =>
            /\ lim.track[c].allowed <= REQUESTS_PER_MINUTE
            /\ lim.track[c].denied =>
                   lim.track[c].allowed = REQUESTS_PER_MINUTE
            /\ lim.buckets[c].tokens
                   = REQUESTS_PER_MINUTE - lim.track[c].allowed

C24_Witness ==
    /\ lim.last.op = "is_allowed" /\ ~lim.last.ok
    /\ lim.last.client_id \in DOMAIN lim.track
    /\ lim.track[lim.last.client_id].born = now
    /\ lim.track[lim.last.client_id].allowed = REQUESTS_PER_MINUTE
    /\ lim.track[lim.last.client_id].denied

(***************************************************************************)
(* The charge of the global bucket.                                        *)
(***************************************************************************)
\* C25: consume(n) is all or nothing: the charge of a batch that needs n
\* tokens is denied whenever fewer than n remain after the refill and
\* granted otherwise, and a denied charge takes none of the tokens that
\* remain: the remaining count is what it was.
C25_ConsumeAllOrNothing ==
    (BtAnswered /\ MissWordSet # {}) =>
        LET n == Cardinality(MissWordSet)
            remaining == get_remaining_tokens(bt.pre.bucket, bt.pre.now)
        IN  /\ remaining < n =>
                   /\ bt.tasks = <<>>
                   /\ bucket.tokens60 = TokensAtStart
                   /\ get_remaining_tokens(bucket, bt.pre.now) = remaining
            /\ remaining >= n =>
                   /\ Len(bt.tasks) = n
                   /\ now = bt.pre.now =>
                          get_remaining_tokens(bucket, now) = remaining - n

\* a batch of two miss words is denied while one token remains
C25_Witness ==
    /\ BtAnswered /\ ChargeDenied
    /\ Cardinality(MissWordSet) = 2
    /\ get_remaining_tokens(bt.pre.bucket, bt.pre.now) = 1
    /\ get_remaining_tokens(bucket, now) = 1

\* the latest call is is_allowed on an empty bucket whose last access is at
\* least 1/refill_rate seconds old
AskedEmptyBucketAfterRefillTime ==
    /\ lim.last.op = "is_allowed"
    /\ lim.last.had
    /\ lim.last.tokens = 0
    /\ (lim.last.t - lim.last.last_check) * REQUESTS_PER_MINUTE
           >= SECONDS_PER_MINUTE

\* C26: from an empty bucket, once at least 1/refill_rate seconds have
\* elapsed since the last access, one more unit request is allowed.
C26_EmptyBucketRefillsAfterOneTokenTime ==
    AskedEmptyBucketAfterRefillTime =>
        /\ lim.last.ok
        /\ lim.buckets[lim.last.client_id].last_check = lim.last.t

C26_Witness ==
    /\ AskedEmptyBucketAfterRefillTime
    /\ lim.last.ok
    /\ lim.track[lim.last.client_id].allowed = REQUESTS_PER_MINUTE + 1

\* the tokens the call in sw obtained: one before its first upstream call,
\* and its retry tokens
SwGranted == (IF sw.f.calls >= 1 THEN 1 ELSE 0) + sw.f.retry_tokens

RECURSIVE SumRetryTokens(_)
SumRetryTokens(tasks) ==
    IF tasks = <<>> THEN 0
    ELSE Head(tasks).f.retry_tokens + SumRetryTokens(Tail(tasks))

\* the tokens the call in bt obtained: one per fetch, and the retry tokens
BtGranted == Len(bt.tasks) + SumRetryTokens(bt.tasks)

\* a retry of the call in sw, or of a fetch of bt, was refused its token
RetryTokenRefused(f) ==
    f.pc = "raised" /\ f.sleeps = f.attempt /\ f.retry_tokens = f.attempt - 1

\* C27: with no time elapsing, in every interleaving of a single-word call
\* and a batch call, retries included, the tokens granted never exceed the
\* capacity, and every granted token was taken from the bucket.
C27_GrantedNeverExceedsCapacity ==
    now = 0 =>
        /\ SwGranted + BtGranted <= REQUESTS_PER_MINUTE
        /\ bucket.tokens60 >= 0
        /\ bucket.tokens60 =
               (REQUESTS_PER_MINUTE - (SwGranted + BtGranted))
                   * SECONDS_PER_MINUTE

C27_Witness ==
    /\ now = 0
    /\ sw.pc = "sleeping"
    /\ Len(bt.tasks) = 1
    /\ RetryTokenRefused(bt.tasks[1].f)
    /\ SwGranted + BtGranted = REQUESTS_PER_MINUTE

\* C28: within one batch run the upstream calls in flight never exceed the
\* batch concurrency limit, whatever the number of unique miss words and
\* the order of the answers and the retries.
C28_InflightWithinBatchConcurrency == Inflight(bt) <= BATCH_CONCURRENCY

C28_Witness ==
    /\ bt.pc = "fetching"
    /\ Len(bt.tasks) > BATCH_CONCURRENCY
    /\ Inflight(bt) = BATCH_CONCURRENCY
    /\ \E k \in 1..Len(bt.tasks) :
           bt.tasks[k].f.pc = "inflight" /\ bt.tasks[k].f.attempt = 2
    /\ \E k \in 1..Len(bt.tasks) :
           bt.tasks[k].f.pc = "ready" /\ bt.tasks[k].f.calls = 0

\* search_word found an unexpired entry under its key
SwFoundLiveEntry ==
    /\ sw.pc = "done"
    /\ ~InvalidWord(sw.word)
    /\ SwKey \in DOMAIN sw.pre.cache
    /\ sw.pre.now < sw.pre.cache[SwKey].expires_at

SuccessMembers == {"word", "dict_type", "count", "results", "deduped", "source_word"}

\* C29: every value in the cache is a success response with from_cache
\* false, and the response of search_word on a hit is the stored response
\* with from_cache changed to true and every other member the same.
C29_CachedResponseServedWithFlagOnly ==
    /\ \A key \in DOMAIN cache :
           LET p == json_loads(cache[key].value) IN
           /\ IsSuccess(p)
           /\ "from_cache" \in DOMAIN p
           /\ p.from_cache = FALSE
    /\ SwFoundLiveEntry =>
           LET stored == json_loads(sw.pre.cache[SwKey].value) IN
           /\ DOMAIN SwPayload = DOMAIN stored
           /\ SuccessMembers \subseteq DOMAIN stored
           /\ \A m \in DOMAIN stored \ {"from_cache"} :
                  SwPayload[m] = stored[m]
           /\ "from_cache" \in DOMAIN SwPayload
           /\ SwPayload.from_cache = TRUE
           /\ sw.f.calls = 0

\* search_word is served the entry a fetch of the batch has written
C29_Witness ==
    /\ SwFoundLiveEntry
    /\ SwPayload.from_cache = TRUE
    /\ \E k \in 1..Len(bt.tasks) :
           /\ bt.tasks[k].done
           /\ bt.tasks[k].word = sw.normalized
           /\ IsSuccess(bt.tasks[k].item)
           /\ bt.tasks[k].item.results = SwPayload.results

\* search_word has answered a call with a well-formed word and a dict_type
\* outside DICT_CODE_MAP
SwUnsupportedDictType ==
    /\ sw.pc = "done"
    /\ ~InvalidWord(sw.word)
    /\ Encodable(sw.word)
    /\ sw.dict_type \notin DICT_CODE_MAP

\* no request of the call reached the upstream
SwNoUpstreamRequest ==
    /\ sw.answers = 0
    /\ sw.f.sleeps = 0
    /\ sw.f.pc \in {"ready", "raised"}

\* C30 as stated: a request whose dict_type is not supported is answered
\* with a validation error, and no request is sent to the upstream.
C30_UnsupportedDictTypeIsValidationError ==
    SwUnsupportedDictType =>
        /\ SwNoUpstreamRequest
        /\ ~IsSuccess(SwPayload)
        /\ SwPayload.error_type = "validation"

\* C30, amended: a request whose dict_type is not supported never sends a
\* request to the upstream; it is answered with a validation error when
\* the bucket grants its token and with a rate_limit error when the bucket
\* denies it.
C30_UnsupportedDictTypeRejectedBeforeRequest ==
    SwUnsupportedDictType =>
        /\ SwNoUpstreamRequest
        /\ ~IsSuccess(SwPayload)
        /\ SwTokensAtStart >= SECONDS_PER_MINUTE =>
               /\ SwPayload.error_type = "validation"
               /\ SwPayload.details = <<"bad_dict_type", 0>>
               /\ sw.f.calls = 1
        /\ SwTokensAtStart < SECONDS_PER_MINUTE =>
               /\ SwPayload.error_type = "rate_limit"
               /\ sw.f.calls = 0

C30_Witness ==
    /\ SwUnsupportedDictType
    /\ SwTokensAtStart >= SECONDS_PER_MINUTE
    /\ SwPayload.error_type = "validation"
    /\ sw.f.pc = "raised"

\* C31: _normalize_word applied to what it returned gives the same word
\* again; the empty str and a str of whitespace are both rejected, with
\* different messages.
C31_NormalizeIdempotent ==
    fn.op = "_normalize_word" =>
        /\ fn.calls = 2 => fn.second = fn.first
        /\ fn.word = <<>> => (~fn.first.ok /\ fn.first.msg = "empty")
        /\ (fn.word # <<>> /\ fn.word # None
               /\ \A i \in 1..Len(fn.word) : fn.word[i] \in Whitespace) =>
               (~fn.first.ok /\ fn.first.msg = "blank")
        /\ _normalize_word(<<>>).msg # _normalize_word(<<" ">>).msg

\* a word with whitespace at both ends and a letter to compose
C31_Witness ==
    /\ fn.op = "_normalize_word"
    /\ fn.calls = 2
    /\ fn.word = <<" ", "a", "~", " ">>
    /\ fn.second = NormOk(<<"a~">>)

\* C32: the rate-limit token of a retry is obtained before the backoff
\* sleep starts: the orchestrator of search_word has never slept more
\* often than it has obtained a retry token.
C32_RetryTokenBeforeSleep ==
    /\ sw.f.sleeps <= sw.f.retry_tokens
    /\ sw.f.pc = "sleeping" => sw.f.retry_tokens = sw.f.attempt

\* the sleep of the orchestrator of search_word ends and the bucket has no
\* token for the retry
SwRetryTokenRefused ==
    /\ sw.pc = "sleeping"
    /\ sw' # sw
    /\ ~can_consume(bucket, 1, now)

\* C33: when the token of a retry cannot be obtained, the orchestrator
\* makes no further upstream call and raises the failure of the attempt
\* that asked for the retry, and the refused acquisition takes nothing from
\* the bucket.
C33_RefusedRetryRaisesAndKeepsBucket ==
    [][SwRetryTokenRefused =>
          /\ sw'.pc = "done"
          /\ sw'.f.pc = "raised"
          /\ sw'.f.calls = sw.f.calls
          /\ sw'.f.retry_tokens = sw.f.retry_tokens
          /\ sw'.answers = sw.answers
          /\ sw'.f.exc = AnswerExc(sw.last)
          /\ sw'.resp = dumps_json(ErrorItemForExc(AnswerExc(sw.last),
                                                   sw.normalized,
                                                   sw.dict_type, TRUE))
          /\ Refill(bucket', now) = Refill(bucket, now)]_vars

C33_Witness ==
    /\ sw.pc = "done"
    /\ sw.f.pc = "raised"
    /\ FetchTokenDenied(sw.f)
    /\ sw.f.exc = AnswerExc(sw.last)
    /\ sw.last.kind = "timeout"
    /\ ~can_consume(bucket, 1, now)

\* C34: the backoff delay of retry index k >= 1 lies within [0, max_delay];
\* without Retry-After it lies within [0, min(max_delay, base_delay *
\* 2^(k-1))]; after a 429 with a Retry-After of r seconds it is at least
\* min(max_delay, r).
C34_BackoffDelayWithinBounds ==
    fn.op = "_compute_backoff_delay" =>
        /\ fn.delay >= 0
        /\ fn.delay <= fn.max_delay
        /\ (fn.retry_after = <<>> \/ fn.status_code # 429) =>
               /\ fn.delay <= fn.base_delay * Pow2(fn.retry_index - 1)
               /\ fn.delay <= fn.max_delay
        /\ (fn.retry_after # <<>> /\ fn.status_code = 429) =>
               /\ fn.retry_after[1] <= fn.max_delay =>
                      fn.delay >= fn.retry_after[1]
               /\ fn.retry_after[1] > fn.max_delay =>
                      fn.delay = fn.max_delay

\* a 429 whose Retry-After is longer than the exponential cap and shorter
\* than max_delay: the delay is Retry-After and some jitter
C34_Witness ==
    /\ fn.op = "_compute_backoff_delay"
    /\ fn.status_code = 429
    /\ fn.retry_after = <<20>>
    /\ fn.base_delay * Pow2(fn.retry_index - 1) < 20
    /\ fn.max_delay > 20
    /\ fn.delay > 20

\* the keys that have an access-timestamp record
TimestampKeys == {access_times[i][1] : i \in 1..Len(access_times)}

\* C35: in every cache state the keys with an entry are the keys with an
\* access-timestamp record, one record per key, whatever get, set and
\* clear have done.
C35_EntriesAndTimestampsAgree ==
    /\ DOMAIN cache = TimestampKeys
    /\ Len(access_times) = Cardinality(TimestampKeys)
    /\ \A i \in 1..Len(access_times) :
           /\ access_times[i][2] <= now
           /\ access_times[i][2] <= cache[access_times[i][1]].expires_at

\* a get has just removed an expired entry while another entry stays
C35_Witness ==
    /\ co.op = "get"
    /\ co.had
    /\ ~co.hit
    /\ _make_key(co.key[1], co.key[2]) \notin DOMAIN cache
    /\ Cardinality(DOMAIN cache) = 1
    /\ DOMAIN cache = TimestampKeys

RECURSIVE SumCalls(_)
SumCalls(tasks) ==
    IF tasks = <<>> THEN 0
    ELSE Head(tasks).f.calls + SumCalls(Tail(tasks))

\* the calls of client.search started so far by the two runs
UpstreamCalls == sw.f.calls + SumCalls(bt.tasks)

\* the tokens taken from the bucket so far, while the clock stands still
TokensConsumed ==
    (REQUESTS_PER_MINUTE * SECONDS_PER_MINUTE - bucket.tokens60)
        \div SECONDS_PER_MINUTE

\* C36: every upstream call is paid for by a token: in every interleaving
\* of the two runs the upstream calls started so far are at most the tokens
\* consumed so far, one for the first attempt of a fetch and one for each
\* retry.
C36_EveryUpstreamCallPaidFor ==
    now = 0 =>
        /\ UpstreamCalls <= TokensConsumed
        /\ sw.f.calls <= 1 + sw.f.retry_tokens
        /\ \A k \in 1..Len(bt.tasks) :
               bt.tasks[k].f.calls <= 1 + bt.tasks[k].f.retry_tokens

\* search_word has made its call and a retry, which took the whole bucket,
\* and the batch was refused its tokens
C36_Witness ==
    /\ now = 0
    /\ sw.f.calls = 2
    /\ sw.f.retry_tokens = 1
    /\ bt.pc = "done"
    /\ bt.miss # <<>>
    /\ bt.tasks = <<>>
    /\ UpstreamCalls = TokensConsumed

\* the step ends the call of search_word with an error response
SwEndsInError ==
    /\ sw.pc # "done"
    /\ sw'.pc = "done"
    /\ ~IsSuccess(json_loads(sw'.resp))

\* the step ends fetch k of the batch with an error item
FetchEndsInError(k) ==
    /\ k \in 1..Len(bt'.tasks)
    /\ bt'.tasks[k].done
    /\ ~IsSuccess(bt'.tasks[k].item)
    /\ k \in 1..Len(bt.tasks) => ~bt.tasks[k].done

\* the step refuses the batch its tokens
BatchEndsRateLimited ==
    /\ bt.pc = "idle"
    /\ bt'.pc = "done"
    /\ bt'.miss # <<>>
    /\ bt'.tasks = <<>>

\* the step stores no entry and changes none
NoCacheWrite ==
    \A key \in DOMAIN cache' :
        key \in DOMAIN cache /\ cache'[key] = cache[key]

\* C37: only success responses are cached: a step that ends a single-word
\* run or a batch fetch in an error writes nothing to the cache, and no
\* entry of the cache is ever an error response.
C37_OnlySuccessResponsesCached ==
    /\ [](\A key \in DOMAIN cache : IsSuccess(json_loads(cache[key].value)))
    /\ [][(SwEndsInError \/ BatchEndsRateLimited
             \/ \E k \in 1..MaxWords : FetchEndsInError(k))
              => NoCacheWrite]_vars

\* both runs are over: search_word with an error, one fetch of the batch
\* with an error and the other with a success, which is in the cache
C37_Witness ==
    /\ sw.pc = "done"
    /\ ~IsSuccess(SwPayload)
    /\ bt.pc = "done"
    /\ \E k \in 1..Len(bt.tasks) :
           bt.tasks[k].done /\ ~IsSuccess(bt.tasks[k].item)
    /\ \E k \in 1..Len(bt.tasks) :
           /\ bt.tasks[k].done
           /\ IsSuccess(bt.tasks[k].item)
           /\ <<bt.tasks[k].word, bt.dict_type>> \in DOMAIN cache

\* C38: denied requests do not postpone the refill: a request that finds
\* the bucket empty is allowed as soon as the time since the latest
\* allowed request reaches 1/refill_rate seconds, whatever requests were
\* denied in between.
C38_DeniedRequestsDoNotPostponeRefill ==
    (/\ lim.last.op = "is_allowed"
     /\ lim.last.had
     /\ lim.last.tokens = 0
     /\ (lim.last.t - lim.last.granted_at) * REQUESTS_PER_MINUTE
            >= SECONDS_PER_MINUTE)
        => lim.last.ok

\* the step ends the call of search_word with a validation error
SwEndsInValidation ==
    /\ SwEndsInError
    /\ json_loads(sw'.resp).error_type = "validation"

\* the step is a call of batch_search_words that ends at once, every item
\* a validation error
BatchEndsInValidation ==
    /\ bt.pc = "idle"
    /\ bt'.pc = "done"
    /\ bt'.results # <<>>
    /\ \A i \in 1..Len(bt'.results) :
           /\ ~IsSuccess(bt'.results[i])
           /\ bt'.results[i].error_type = "validation"

CacheUntouched == cache' = cache /\ access_times' = access_times

\* the step takes n tokens from the bucket
Charged(n) ==
    bucket'.tokens60 = Refill(bucket, now).tokens60 - n * SECONDS_PER_MINUTE

PairWords == {<<>>, <<" ">>, <<"a">>, <<" ", "a">>, <<"b">>, <<LoneSurrogate>>}

PairAnswers ==
    {a \in UpstreamAnswers :
        a.kind \in {"ok", "bad_type", "timeout"} \/ a.status \in {404, 503}}

\* an answer after which _upstream_search_with_retry may go on
PairRetryable(a) == a.kind = "timeout" \/ a.status = 503

\* the answers up to the first that ends the call of the orchestrator
PairScripts ==
    {s \in SeqsUpTo(PairAnswers, UPSTREAM_RETRY_MAX_ATTEMPTS) :
        /\ s # <<>>
        /\ \A i \in 1..(Len(s) - 1) : PairRetryable(s[i])
        /\ Len(s) < UPSTREAM_RETRY_MAX_ATTEMPTS => ~PairRetryable(s[Len(s)])}

\* the upstream is given its answers for the request to come
PairChoose(script) ==
    /\ NoRun
    /\ fn = NoFn
    /\ fn' = [op |-> "pair", phase |-> "single", script |-> script,
              left |-> NoPre]
    /\ UNCHANGED <<now, cache, access_times, bucket, sw, bt, co, lim>>

PairSwStart(word, dict_type) ==
    /\ fn = NoFn => (word = <<"a">> /\ dict_type = "ko-zh")
    /\ fn # NoFn => fn.phase = "single"
    /\ SwStart(word, dict_type)

PairSwAnswer(answer) ==
    /\ sw.pc = "inflight"
    /\ IF fn = NoFn THEN answer.kind = "ok"
       ELSE answer = fn.script[sw.f.calls]
    /\ SwAnswer(answer)

\* search_word has answered: the batch starts from the state it found
PairRewind ==
    /\ fn # NoFn
    /\ fn.phase = "single"
    /\ sw.pc = "done"
    /\ fn' = [fn EXCEPT !.phase = "batch", !.left = Pre]
    /\ cache' = sw.pre.cache
    /\ access_times' = sw.pre.access_times
    /\ bucket' = sw.pre.bucket
    /\ UNCHANGED <<now, sw, bt, co, lim>>

PairBatchBegin ==
    /\ fn # NoFn
    /\ fn.phase = "batch"
    /\ BatchBegin(<<sw.word>>, sw.dict_type, FALSE)

PairTaskAnswer ==
    /\ bt.pc = "fetching"
    /\ bt.tasks[1].f.pc = "inflight"
    /\ TaskAnswer(1, fn.script[bt.tasks[1].f.calls])

NextPair ==
    \/ fn = NoFn /\ Tick
    \/ fn = NoFn /\ SwReturn
    \/ \E script \in PairScripts : PairChoose(script)
    \/ \E word \in PairWords, dict_type \in InputDictTypes :
           PairSwStart(word, dict_type)
    \/ \E answer \in PairAnswers : PairSwAnswer(answer)
    \/ SwWake
    \/ PairRewind
    \/ PairBatchBegin
    \/ PairTaskAnswer
    \/ TaskWake(1)

SpecPair == Init /\ [][NextPair]_vars

\* the members of a response the two tools are compared on
PairMembers ==
    {"success", "word", "count", "results", "error_type", "from_cache",
     "source_word"}

\* the member m of payload p, or nothing
Member(p, m) == IF m \in DOMAIN p THEN <<p[m]>> ELSE <<>>

\* both tools have ended on the request
PairAnswered ==
    fn # NoFn /\ fn.phase = "batch" /\ bt.pc \in {"done", "raised"}

\* C40: a batch of one word is a single lookup: from the same cache, bucket
\* and upstream answers, batch_search_words([w]) returns one item with the
\* success, word, count, results, error_type, from_cache and source_word of
\* the response of search_word(w), and leaves the cache and the bucket as
\* search_word leaves them.
C40_BatchOfOneIsSingleLookup ==
    PairAnswered =>
        /\ bt.pc = "done"
        /\ Len(BtPayload.results) = 1
        /\ \A m \in PairMembers :
               Member(BtPayload.results[1], m) = Member(SwPayload, m)
        /\ cache = fn.left.cache
        /\ access_times = fn.left.access_times
        /\ bucket = fn.left.bucket

====
